---- MODULE Spec2Model ----
(***************************************************************************)
(* A model of DBusParse: the D-Bus type family, the value tree, the        *)
(* two-pass serializer, the continuation-passing parser framework, the     *)
(* type-directed object parser and the message parser.                     *)
(*                                                                         *)
(* Bytes are naturals in 0..255.  A 16/32/64-bit integer value is the      *)
(* sequence of its base-256 digits, most significant digit first; the      *)
(* wire encoders/decoders reverse the digits for little endian.            *)
(***************************************************************************)
EXTENDS Integers, Sequences, FiniteSets, TLC

(***************************************************************************)
(* Bounds of the model.                                                    *)
(***************************************************************************)
\* Largest number of elements of a generated array.
MaxElems == 2

\* Longest generated string payload.
MaxStr == 2

\* Largest size of a partial chunk.
MaxChunk == 2

\* Largest number of continuation invocations followed inside one call of
\* Parse::parse before the model gives up on the call.
ChainFuel == 24

\* The largest number of types in a generated signature.
MaxTypes == 2

\* The largest length of a generated string of signature characters.
MaxSigLen == 3

(***************************************************************************)
(* Small helpers.                                                          *)
(***************************************************************************)
Reverse(s) == [i \in 1..Len(s) |-> s[Len(s) + 1 - i]]

Min(a, b) == IF a <= b THEN a ELSE b

\* n zero bytes.
Zeros(n) == [i \in 1..n |-> 0]

\* The base-256 digits (most significant first) of x, in w digits.
RECURSIVE ToDigits(_, _)
ToDigits(x, w) ==
  IF w = 0 THEN << >> ELSE Append(ToDigits(x \div 256, w - 1), x % 256)

\* The number whose base-256 digits (most significant first) are d.
RECURSIVE FromDigits(_)
FromDigits(d) ==
  IF Len(d) = 0 THEN 0
  ELSE 256 * FromDigits(SubSeq(d, 1, Len(d) - 1)) + d[Len(d)]

\* sizeof(size_t): the width in bytes of Parse::State::pos_.
SizeBytes == 8

\* The digits of a + b + carry for digit strings a and b of one length,
\* with the carry out of the most significant digit.
RECURSIVE AddCarry(_, _, _)
AddCarry(a, b, carry) ==
  IF Len(a) = 0 THEN [sum |-> << >>, carry |-> carry]
  ELSE LET n == Len(a)
           s == a[n] + b[n] + carry
           r == AddCarry(SubSeq(a, 1, n - 1), SubSeq(b, 1, n - 1), s \div 256)
       IN [sum |-> Append(r.sum, s % 256), carry |-> r.carry]

\* An addition of size_t values that drops the carry and reports nothing.
builtin_add_overflow_wrap(pos, len) ==
  [overflow |-> FALSE,
   res |-> AddCarry(pos, Zeros(Len(pos) - Len(len)) \o len, 0).sum]
\* __builtin_add_overflow(pos, len, &endpos) for a size_t pos and a
\* narrower unsigned len, both as digits: the wrapped sum and whether it
\* did not fit.
builtin_add_overflow(pos, len) ==
  LET r == AddCarry(pos, Zeros(Len(pos) - Len(len)) \o len, 0)
  IN [overflow |-> r.carry # 0, res |-> r.sum]

\* htole16/32/64 and htobe16/32/64, and their inverses le..toh / be..toh.
HostToWire(E, d) == IF E = "LE" THEN Reverse(d) ELSE d
\* The byte swap of the parser done whatever the byte order.
WireToHost_swap(E, b) == Reverse(b)
WireToHost(E, b) == IF E = "LE" THEN Reverse(b) ELSE b

(***************************************************************************)
(* The type family.                                                        *)
(***************************************************************************)
TChar == [k |-> "y"]
TBoolean == [k |-> "b"]
TUint16 == [k |-> "q"]
TInt16 == [k |-> "n"]
TUint32 == [k |-> "u"]
TInt32 == [k |-> "i"]
TUint64 == [k |-> "t"]
TInt64 == [k |-> "x"]
TDouble == [k |-> "d"]
TUnixFD == [k |-> "h"]
TString == [k |-> "s"]
TPath == [k |-> "o"]
TSignature == [k |-> "g"]
TVariant == [k |-> "v"]
TArray(bt) == [k |-> "a", bt |-> bt]
TStruct(fts) == [k |-> "(", fts |-> fts]
TDictEntry(kt, vt) == [k |-> "{", kt |-> kt, vt |-> vt]

\* alignment() with a struct aligned as its first field is in a message
\* header.
alignment_struct4(t) ==
  CASE t.k \in {"y", "g", "v"} -> 1
    [] t.k \in {"q", "n"} -> 2
    [] t.k \in {"t", "x", "{"} -> 8
    [] OTHER -> 4
\* DBusType::alignment(), one line per class.
alignment(t) ==
  CASE t.k = "y" -> 1
    [] t.k = "b" -> 4
    [] t.k = "q" -> 2
    [] t.k = "n" -> 2
    [] t.k = "u" -> 4
    [] t.k = "i" -> 4
    [] t.k = "t" -> 8
    [] t.k = "x" -> 8
    [] t.k = "d" -> 4
    [] t.k = "h" -> 4
    [] t.k = "s" -> 4
    [] t.k = "o" -> 4
    [] t.k = "g" -> 1
    [] t.k = "v" -> 1
    [] t.k = "{" -> 8
    [] t.k = "a" -> 4
    [] t.k = "(" -> 8

\* The ASCII code of a type letter.
LetterCode(k) ==
  CASE k = "y" -> 121 [] k = "b" -> 98 [] k = "q" -> 113 [] k = "n" -> 110
    [] k = "u" -> 117 [] k = "i" -> 105 [] k = "t" -> 116 [] k = "x" -> 120
    [] k = "d" -> 100 [] k = "h" -> 104 [] k = "s" -> 115 [] k = "o" -> 111
    [] k = "g" -> 103 [] k = "v" -> 118 [] k = "a" -> 97 [] k = "(" -> 40
    [] k = ")" -> 41 [] k = "{" -> 123 [] k = "}" -> 125

\* DBusType::serialize into a string writer, i.e. DBusType::toString().
RECURSIVE TypeToString(_)
RECURSIVE TypesToString(_)
TypeToString(t) ==
  CASE t.k = "a" -> <<LetterCode("a")>> \o TypeToString(t.bt)
    [] t.k = "(" -> <<LetterCode("(")>> \o TypesToString(t.fts)
                      \o <<LetterCode(")")>>
    [] t.k = "{" -> <<LetterCode("{")>> \o TypeToString(t.kt)
                      \o TypeToString(t.vt) \o <<LetterCode("}")>>
    [] OTHER -> <<LetterCode(t.k)>>

TypesToString(ts) ==
  IF Len(ts) = 0 THEN << >>
  ELSE TypeToString(Head(ts)) \o TypesToString(Tail(ts))

\* visitArray of the CloneVisitor that returns the copy of the element type.
cloneType_visitArray_base(baseType) == baseType
\* visitArray of the CloneVisitor: allocArray of the copied element type.
cloneType_visitArray(baseType) == TArray(baseType)

\* cloneType: a deep copy of a type into a fresh DBusTypeStorage.
RECURSIVE cloneType(_)
cloneType(t) ==
  CASE t.k = "a" -> cloneType_visitArray(cloneType(t.bt))
    [] t.k = "(" -> TStruct([i \in 1..Len(t.fts) |-> cloneType(t.fts[i])])
    [] t.k = "{" -> TDictEntry(cloneType(t.kt), cloneType(t.vt))
    [] OTHER -> [k |-> t.k]

\* The DBusTypeStorage that cloneType(typeStorage, t) fills: the array,
\* struct and dict entry types of the copy.
RECURSIVE cloneType_storage(_)
cloneType_storage(t) ==
  CASE t.k = "a" -> {cloneType(t)} \cup cloneType_storage(t.bt)
    [] t.k = "(" -> {cloneType(t)}
                      \cup UNION {cloneType_storage(t.fts[i]) :
                                    i \in 1..Len(t.fts)}
    [] t.k = "{" -> {cloneType(t)} \cup cloneType_storage(t.kt)
                      \cup cloneType_storage(t.vt)
    [] OTHER -> {}

(***************************************************************************)
(* The value tree.  An array holds its element type bt by reference;       *)
(* storage is the typeStorage_ of a DBusObjectArray0, empty for a plain    *)
(* DBusObjectArray.                                                        *)
(***************************************************************************)
\* DBusObject::getType().
RECURSIVE getType(_)
getType(v) ==
  CASE v.k = "a" -> TArray(v.bt)
    [] v.k = "(" -> TStruct([i \in 1..Len(v.es) |-> getType(v.es[i])])
    [] v.k = "{" -> TDictEntry(getType(v.key), getType(v.val))
    [] OTHER -> [k |-> v.k]

\* Factory functions.
ObjChar(c) == [k |-> "y", c |-> c]
ObjBoolean(b) == [k |-> "b", c |-> b]
\* The 16/32/64-bit scalars: kind is the type letter, x the digits.
ObjScalar(kind, x) == [k |-> kind, x |-> x]
\* String, Path, Signature: kind is the type letter, str the payload.
ObjString(kind, str) == [k |-> kind, s |-> str]
ObjVariant(object) ==
  [k |-> "v", c |-> object, sig |-> TypeToString(getType(object))]
ObjDictEntry(key, value) == [k |-> "{", key |-> key, val |-> value]
ObjArrayCtor(baseType, elements) ==
  [k |-> "a", bt |-> baseType, es |-> elements, storage |-> {}]
\* DBusObjectArray0: the array owns typeStorage.
ObjArray0Ctor(baseType, elements, typeStorage) ==
  [ObjArrayCtor(baseType, elements) EXCEPT !.storage = typeStorage]
\* mk0 given the type of the array where the element type belongs.
ObjArray_mk0_self(baseType) ==
  ObjArray0Ctor(TArray(cloneType(baseType)), << >>,
                cloneType_storage(baseType))
ObjArray_mk0(baseType) ==
  ObjArray0Ctor(cloneType(baseType), << >>, cloneType_storage(baseType))
ObjArray_mk1(elements) == ObjArrayCtor(getType(elements[1]), elements)
\* mk without the special case for no elements.
ObjArray_mk_ctor(baseType, elements) == ObjArrayCtor(baseType, elements)
ObjArray_mk(baseType, elements) ==
  IF Len(elements) = 0 THEN ObjArray_mk0(baseType)
  ELSE ObjArray_mk1(elements)
ObjStruct(elements) == [k |-> "(", es |-> elements]

(***************************************************************************)
(* The serializers.  A serializer is a record                              *)
(*   mode   "init" (SerializerInitArraySizes), "dry" (SerializerDryRun)    *)
(*          or "buf" (SerializeToBuffer)                                   *)
(*   E      the endianness of SerializeToBuffer                            *)
(*   pos    pos_                                                           *)
(*   buf    the caller's buffer (-1 marks a byte never written)            *)
(*   over   TRUE once a byte was written outside the buffer                *)
(*   sizes  arraySizes_                                                    *)
(*   cnt    arrayCount_                                                    *)
(*   ret    the value returned by the last array body                      *)
(*   pads   the offsets written by insertPadding                           *)
(*   spans  for every array body run: the offset of its length field, the   *)
(*          alignment of its element type and the offset of its end        *)
(*   nodes  for every call of recordArraySize, in call order: the array    *)
(*          and the offset at which the call was made                      *)
(*   starts for every call of DBusObject::serialize, in call order: the    *)
(*          type letter of the value and the offset behind its padding     *)
(***************************************************************************)
\* alignup that adds the remainder instead of its complement.
alignup_rem(pos, a) == pos + (pos % a)

alignup(pos, a) == ((pos + a - 1) \div a) * a

RECURSIVE PutBytes(_, _)
PutBytes(s, bytes) ==
  IF Len(bytes) = 0 THEN s
  ELSE PutBytes(
         IF s.mode # "buf" THEN [s EXCEPT !.pos = @ + 1]
         ELSE IF s.pos + 1 > Len(s.buf)
           THEN [s EXCEPT !.pos = @ + 1, !.over = TRUE]
         ELSE [s EXCEPT !.pos = @ + 1, !.buf[s.pos + 1] = Head(bytes)],
         Tail(bytes))

writeByte(s, c) == PutBytes(s, <<c>>)
writeBytes(s, bytes) == PutBytes(s, bytes)
\* writeUint16/32/64 and writeDouble: d are the digits of the value.
writeUint(s, d) == PutBytes(s, HostToWire(s.E, d))

\* insertPadding with a SerializerDryRunBase that leaves pos_ alone.
insertPadding_dry(s, a) ==
  IF s.mode # "buf" THEN s
  ELSE LET newpos == alignup(s.pos, a)
           s1 == PutBytes(s, Zeros(newpos - s.pos))
       IN [s1 EXCEPT !.pads = @ \cup (s.pos .. newpos - 1)]
\* insertPadding of SerializerDryRunBase and of SerializeToBuffer.
insertPadding(s, a) ==
  LET newpos == alignup(s.pos, a)
      s1 == PutBytes(s, Zeros(newpos - s.pos))
  IN [s1 EXCEPT !.pads = @ \cup (s.pos .. newpos - 1)]

\* The start of a value: its type letter and the offset behind its padding.
ValueStart(s, v) == [s EXCEPT !.starts = Append(@, [at |-> s.pos, k |-> v.k])]

RECURSIVE serialize(_, _)
RECURSIVE serializeAfterPadding(_, _)
RECURSIVE Seq_serialize(_, _)

\* The lambda with posBefore taken before the padding is inserted.
ArrayBody_early(s, v, arraySize) ==
  LET at == s.pos
      s1 == writeUint(s, ToDigits(arraySize, 4))
      posBefore == s1.pos
      s2 == insertPadding(s1, alignment(v.bt))
      s3 == Seq_serialize(s2, v.es)
      posAfter == s3.pos
  IN [s3 EXCEPT !.ret = posAfter - posBefore,
                !.spans = Append(@, [at |-> at, a |-> alignment(v.bt),
                                     to |-> posAfter])]

\* The lambda of DBusObjectArray::serializeAfterPadding.
ArrayBody(s, v, arraySize) ==
  LET at == s.pos
      s1 == writeUint(s, ToDigits(arraySize, 4))
      s2 == insertPadding(s1, alignment(v.bt))
      posBefore == s2.pos
      s3 == Seq_serialize(s2, v.es)
      posAfter == s3.pos
  IN [s3 EXCEPT !.ret = posAfter - posBefore,
                !.spans = Append(@, [at |-> at, a |-> alignment(v.bt),
                                     to |-> posAfter])]

\* The call of an array: the node and the offset of the call.
ArrayCall(s, v) == [at |-> s.pos, v |-> v]

\* recordArraySize whose size pass stores a size once the body has run.
recordArraySize_push(s, v) ==
  CASE s.mode = "dry" ->
         [ArrayBody([s EXCEPT !.nodes = Append(@, ArrayCall(s, v))], v, 0)
            EXCEPT !.cnt = @ + 1]
    [] s.mode = "init" ->
         LET s1 == [s EXCEPT !.nodes = Append(@, ArrayCall(s, v))]
             s2 == ArrayBody(s1, v, 0)
         IN [s2 EXCEPT !.sizes = Append(@, s2.ret)]
    [] s.mode = "buf" ->
         IF s.cnt + 1 > Len(s.sizes)
         THEN [s EXCEPT !.over = TRUE]
         ELSE ArrayBody([s EXCEPT !.cnt = @ + 1,
                                  !.nodes = Append(@, ArrayCall(s, v))],
                        v, s.sizes[s.cnt + 1])

\* Serializer::recordArraySize of the three serializers.
recordArraySize(s, v) ==
  CASE s.mode = "dry" ->
         [ArrayBody([s EXCEPT !.nodes = Append(@, ArrayCall(s, v))], v, 0)
            EXCEPT !.cnt = @ + 1]
    [] s.mode = "init" ->
         LET i == Len(s.sizes) + 1
             s1 == [s EXCEPT !.sizes = Append(@, 0),
                             !.nodes = Append(@, ArrayCall(s, v))]
             s2 == ArrayBody(s1, v, 0)
         IN [s2 EXCEPT !.sizes[i] = s2.ret]
    [] s.mode = "buf" ->
         IF s.cnt + 1 > Len(s.sizes)
         THEN [s EXCEPT !.over = TRUE]
         ELSE ArrayBody([s EXCEPT !.cnt = @ + 1,
                                  !.nodes = Append(@, ArrayCall(s, v))],
                        v, s.sizes[s.cnt + 1])

\* DBusObjectVariant::serializeAfterPadding that writes the child where
\* the signature ends.
Variant_serializeAfterPadding_packed(s, v) ==
  serializeAfterPadding(serialize(s, ObjString("g", v.sig)), v.c)
\* DBusObjectVariant::serializeAfterPadding.
Variant_serializeAfterPadding(s, v) ==
  serialize(serialize(s, ObjString("g", v.sig)), v.c)

serializeAfterPadding(s, v) ==
  CASE v.k = "y" -> writeByte(s, v.c)
    [] v.k = "b" -> writeUint(s, ToDigits(v.c, 4))
    [] v.k \in {"q", "n", "u", "i", "h", "t", "x", "d"} -> writeUint(s, v.x)
    [] v.k \in {"s", "o"} ->
         LET len == Len(v.s)
         IN writeBytes(writeUint(s, ToDigits(len, 4)), v.s \o <<0>>)
    [] v.k = "g" ->
         LET len == Len(v.s) % 256
         IN writeBytes(writeByte(s, len), SubSeq(v.s \o <<0>>, 1, len + 1))
    [] v.k = "v" -> Variant_serializeAfterPadding(s, v)
    [] v.k = "{" -> serialize(serialize(s, v.key), v.val)
    [] v.k = "a" -> recordArraySize(s, v)
    [] v.k = "(" -> Seq_serialize(s, v.es)

\* DBusObject::serialize.  A write outside the buffer is undefined
\* behaviour: the model records it in over and writes nothing after it.
serialize(s, v) ==
  IF s.over THEN s
  ELSE serializeAfterPadding(
         ValueStart(insertPadding(s, alignment(getType(v))), v), v)

\* DBusObjectSeq::serialize.
Seq_serialize(s, es) ==
  IF Len(es) = 0 THEN s
  ELSE Seq_serialize(serialize(s, Head(es)), Tail(es))

SerializerInitArraySizes ==
  [mode |-> "init", E |-> "LE", pos |-> 0, buf |-> << >>, over |-> FALSE,
   sizes |-> << >>, cnt |-> 0, ret |-> 0, pads |-> {}, spans |-> << >>,
   nodes |-> << >>, starts |-> << >>]

SerializeToBuffer(E, arraySizes, size) ==
  [mode |-> "buf", E |-> E, pos |-> 0, buf |-> [i \in 1..size |-> -1],
   over |-> FALSE, sizes |-> arraySizes, cnt |-> 0, ret |-> 0, pads |-> {},
   spans |-> << >>, nodes |-> << >>, starts |-> << >>]

\* dbus_object_to_buffer: the size pass, then the emit pass into a buffer
\* of the size the first pass reported.  The result is the final state of
\* the emitting serializer.
dbus_object_to_buffer(E, object) ==
  LET s0 == serialize(SerializerInitArraySizes, object)
  IN serialize(SerializeToBuffer(E, s0.sizes, s0.pos), object)

(***************************************************************************)
(* The parser framework.  The parser of the model is a record              *)
(*   st     "wait": Head(stk) is the Parse::Cont installed in Parse::cont_ *)
(*          "call": Head(stk) is a continuation that is being invoked      *)
(*                  with the argument arg (method meth)                    *)
(*          "err":  an exception left Parse::parse                         *)
(*          "deep": more than ChainFuel continuations were invoked inside  *)
(*                  one call of Parse::parse                               *)
(*   stk    the linked list of continuations, the installed one first      *)
(*   pos    Parse::State::pos_                                             *)
(*   E      the endianness template argument                               *)
(*   res    the caller's result slot; for an object parser calls counts    *)
(*          the invocations of the completion continuation                 *)
(*   ts     the result_ vector of DBusObjectSignature::toTypes             *)
(*   err    the exception                                                  *)
(*   n      the number of continuation invocations made so far by the      *)
(*          current call of Parse::parse                                   *)
(***************************************************************************)
NoError == [type |-> "none", pos |-> 0, msg |-> ""]
NoResult == [set |-> FALSE]

Wait(m, stk) == [m EXCEPT !.st = "wait", !.stk = stk, !.arg = 0, !.meth = ""]

\* cont->parse(p, arg)
Call(m, stk, arg) ==
  [m EXCEPT !.st = "call", !.stk = stk, !.arg = arg, !.meth = "parse",
            !.n = @ + 1]

\* cont->parseCloseParen(typeStorage, p)
CallCloseParen(m, stk) ==
  [m EXCEPT !.st = "call", !.stk = stk, !.arg = 0,
            !.meth = "parseCloseParen", !.n = @ + 1]

Throw(m, type, pos, msg) ==
  [m EXCEPT !.st = "err", !.arg = 0, !.meth = "",
            !.err = [type |-> type, pos |-> pos, msg |-> msg]]

ParseError(m, pos, msg) == Throw(m, "ParseError", pos, msg)

ParseStop_mk(m) == Wait(m, <<[f |-> "ParseStop"]>>)

ParseChar_mk(m, stk) == Wait(m, <<[f |-> "ParseChar"]>> \o stk)

ParseUint16_mk(m, stk) == Wait(m, <<[f |-> "ParseUint16"]>> \o stk)

ParseUint32_mk(m, stk) == Wait(m, <<[f |-> "ParseUint32"]>> \o stk)

ParseUint64_mk(m, stk) == Wait(m, <<[f |-> "ParseUint64"]>> \o stk)

\* ParseNChars::mk that loses the bytes collected by earlier calls.
ParseNChars_mk_drop(m, str, n, stk) ==
  IF n = 0 THEN Call(m, stk, str)
  ELSE Wait(m, <<[f |-> "ParseNChars", str |-> << >>, n |-> n]>> \o stk)

ParseNChars_mk(m, str, n, stk) ==
  IF n = 0 THEN Call(m, stk, str)
  ELSE Wait(m, <<[f |-> "ParseNChars", str |-> str, n |-> n]>> \o stk)

\* ParseZeros::mk that always installs a ParseZeros.
ParseZeros_mk_install(m, n, stk) ==
  Wait(m, <<[f |-> "ParseZeros", n |-> n]>> \o stk)
\* ParseZeros::mk.
ParseZeros_mk(m, n, stk) ==
  IF n = 0 THEN Call(m, stk, 0)
  ELSE Wait(m, <<[f |-> "ParseZeros", n |-> n]>> \o stk)

\* minRequiredBytes() with a ParseZeros that asks for the largest
\* alignment.
minRequiredBytes_align(c) ==
  CASE c.f = "ParseStop" -> 0
    [] c.f = "ParseChar" -> 1
    [] c.f = "ParseUint16" -> 2
    [] c.f = "ParseUint32" -> 4
    [] c.f = "ParseUint64" -> 8
    [] c.f = "ParseNChars" -> 0
    [] c.f = "ParseZeros" -> 8
\* Cont::minRequiredBytes() and Cont::maxRequiredBytes().
minRequiredBytes(c) ==
  CASE c.f = "ParseStop" -> 0
    [] c.f = "ParseChar" -> 1
    [] c.f = "ParseUint16" -> 2
    [] c.f = "ParseUint32" -> 4
    [] c.f = "ParseUint64" -> 8
    [] c.f = "ParseNChars" -> 0
    [] c.f = "ParseZeros" -> 0

maxRequiredBytes(c) ==
  CASE c.f = "ParseStop" -> 0
    [] c.f = "ParseChar" -> 1
    [] c.f = "ParseUint16" -> 2
    [] c.f = "ParseUint32" -> 4
    [] c.f = "ParseUint64" -> 8
    [] c.f = "ParseNChars" -> c.n
    [] c.f = "ParseZeros" -> c.n

\* The index (from 0) of the first non-zero byte of buf, or Len(buf).
RECURSIVE FirstNonZero(_, _)
FirstNonZero(buf, i) ==
  IF i >= Len(buf) THEN Len(buf)
  ELSE IF buf[i + 1] # 0 THEN i
  ELSE FirstNonZero(buf, i + 1)

\* Cont::parse with a ParseZeros::parse that does not look at the bytes.
Cont_parse_nocheck(m, buf) ==
  LET c == Head(m.stk)
      rest == Tail(m.stk)
  IN CASE c.f = "ParseChar" -> Call(m, rest, buf[1])
       [] c.f \in {"ParseUint16", "ParseUint32", "ParseUint64"} ->
            Call(m, rest, WireToHost(m.E, buf))
       [] c.f = "ParseNChars" ->
            ParseNChars_mk(m, c.str \o buf, c.n - Len(buf), rest)
       [] c.f = "ParseZeros" -> ParseZeros_mk(m, c.n - Len(buf), rest)

\* Cont::parse(p, buf, bufsize) of the installed continuation; m.pos is
\* already advanced by Parse::parse.
Cont_parse(m, buf) ==
  LET c == Head(m.stk)
      rest == Tail(m.stk)
  IN CASE c.f = "ParseChar" -> Call(m, rest, buf[1])
       [] c.f \in {"ParseUint16", "ParseUint32", "ParseUint64"} ->
            Call(m, rest, WireToHost(m.E, buf))
       [] c.f = "ParseNChars" ->
            ParseNChars_mk(m, c.str \o buf, c.n - Len(buf), rest)
       [] c.f = "ParseZeros" ->
            LET i == FirstNonZero(buf, 0)
            IN IF i < Len(buf)
               THEN ParseError(m, m.pos + i, "Unexpected non-zero byte.")
               ELSE ParseZeros_mk(m, c.n - Len(buf), rest)

(***************************************************************************)
(* The body of the continuations and of the functions they call.  Each     *)
(* function takes the parser and the continuations behind the one it       *)
(* builds.                                                                 *)
(***************************************************************************)
\* parseType (the signature grammar): reads one character.
parseType(m, stk) == ParseChar_mk(m, <<[f |-> "parseType_Cont"]>> \o stk)

\* parse_alignment with the padding taken as pos mod alignment.
parse_alignment_mod(m, t, stk) ==
  ParseZeros_mk(m, m.pos % alignment(t), stk)

parse_alignment(m, t, stk) ==
  LET a == alignment(t)
      padding == (a - (m.pos % a)) % a
  IN ParseZeros_mk(m, padding, stk)

mkObjectParser(m, t, stk) ==
  parse_alignment(m, t, <<[f |-> "PaddingCont", t |-> t]>> \o stk)

\* parseString that reads the terminator as a byte of the payload.
parseString_incl(m, len, stk) ==
  ParseNChars_mk(m, << >>, len + 1, <<[f |-> "StringCont"]>> \o stk)
\* parseString: the payload, then the terminating zero byte.
parseString(m, len, stk) ==
  ParseNChars_mk(m, << >>, len, <<[f |-> "StringCont"]>> \o stk)

parseString32(m, stk) ==
  ParseUint32_mk(m, <<[f |-> "String32_LengthCont"]>> \o stk)

parseString8(m, stk) ==
  ParseChar_mk(m, <<[f |-> "String8_LengthCont"]>> \o stk)

\* parseArray without the check for an element that ends behind endpos.
parseArray_past(m, elemType, endpos, elements, stk) ==
  IF m.pos < endpos
  THEN mkObjectParser(m, elemType,
                      <<[f |-> "parseArray_Cont", t |-> elemType,
                         endpos |-> endpos, elements |-> elements]>> \o stk)
  ELSE Call(m, stk, ObjArray_mk(elemType, elements))

parseArray(m, elemType, endpos, elements, stk) ==
  IF m.pos < endpos
  THEN mkObjectParser(m, elemType,
                      <<[f |-> "parseArray_Cont", t |-> elemType,
                         endpos |-> endpos, elements |-> elements]>> \o stk)
  ELSE IF m.pos = endpos
  THEN Call(m, stk, ObjArray_mk(elemType, elements))
  ELSE ParseError(m, m.pos, "Incorrect array length.")

\* parseObjects: Head(stk) is the ParseObjectsCont that collects the objects.
parseObjects(m, types, i, stk) ==
  IF i < Len(types)
  THEN mkObjectParser(m, types[i + 1],
                      <<[f |-> "parseObjects_Cont", types |-> types,
                         i |-> i]>> \o stk)
  ELSE Call(m, stk, 0)

parseStruct(m, structType, stk) ==
  parseObjects(m, structType.fts, 0,
               <<[f |-> "parseStruct_Cont", objects |-> << >>]>> \o stk)

\* DBusType*::mkObjectParserImpl.
mkObjectParserImpl(m, t, stk) ==
  CASE t.k = "y" -> ParseChar_mk(m, <<[f |-> "Char_Cont"]>> \o stk)
    [] t.k = "b" -> ParseUint32_mk(m, <<[f |-> "Boolean_Cont"]>> \o stk)
    [] t.k \in {"q", "n"} ->
         ParseUint16_mk(m, <<[f |-> "Scalar_Cont", kind |-> t.k]>> \o stk)
    [] t.k \in {"u", "i", "h"} ->
         ParseUint32_mk(m, <<[f |-> "Scalar_Cont", kind |-> t.k]>> \o stk)
    [] t.k \in {"t", "x", "d"} ->
         ParseUint64_mk(m, <<[f |-> "Scalar_Cont", kind |-> t.k]>> \o stk)
    [] t.k \in {"s", "o"} ->
         parseString32(m, <<[f |-> "String_Cont", kind |-> t.k]>> \o stk)
    [] t.k = "g" ->
         parseString8(m, <<[f |-> "String_Cont", kind |-> t.k]>> \o stk)
    [] t.k = "v" ->
         ParseChar_mk(m, <<[f |-> "Variant_LengthCont"],
                           [f |-> "Variant_ObjectCont"]>> \o stk)
    [] t.k = "{" ->
         mkObjectParser(m, t.kt,
                        <<[f |-> "DictEntry_KeyCont", t |-> t.vt]>> \o stk)
    [] t.k = "a" ->
         ParseUint32_mk(m, <<[f |-> "Array_LengthCont", t |-> t.bt]>> \o stk)
    [] t.k = "(" -> parseStruct(m, t, stk)

(***************************************************************************)
(* The message header.                                                     *)
(***************************************************************************)
MSGTYPE_METHOD_CALL == 1
MSGTYPE_METHOD_RETURN == 2
MSGFLAGS_EMPTY == 0
MSGHDR_PATH == 1
MSGHDR_INTERFACE == 2
MSGHDR_MEMBER == 3
MSGHDR_REPLY_SERIAL == 5
MSGHDR_DESTINATION == 6
MSGHDR_SIGNATURE == 8
MSGHDR_UNIX_FDS == 9

headerFieldType == TStruct(<<TChar, TVariant>>)

headerFieldsType == TArray(headerFieldType)

headerType ==
  TStruct(<<TChar, TChar, TChar, TChar, TUint32, TUint32, headerFieldsType>>)

\* DBusMessage::getHeader_bodySize.
getHeader_bodySize(header) == FromDigits(header.es[5].x)

\* DBusMessage::getHeader_lookupField: the index of the first header field
\* with the given code, or 0 (the code throws ObjectCastError).
getHeader_lookupField(header, name) ==
  LET fields == header.es[7].es
      hits == {i \in 1..Len(fields) : fields[i].es[1].c = name}
  IN IF hits = {} THEN 0 ELSE CHOOSE i \in hits : \A j \in hits : i <= j

RECURSIVE Run(_)

\* Parse::parse that advances pos_ when the continuation has returned or
\* thrown.
Parse_parse_late(m, buf) ==
  [Run(Cont_parse([m EXCEPT !.n = 1], buf)) EXCEPT !.pos = @ + Len(buf)]
\* Parse::parse followed until the call returns or throws.
Parse_parse(m, buf) ==
  Run(Cont_parse([m EXCEPT !.pos = @ + Len(buf), !.n = 1], buf))

\* A fresh Parse object; mk builds the initial continuation.
NewParse(E) ==
  [st |-> "wait", stk |-> << >>, arg |-> 0, meth |-> "", pos |-> 0,
   E |-> E, res |-> NoResult, ts |-> << >>, err |-> NoError, n |-> 0]

\* toTypes that returns no types for an empty signature.
toTypes_mk_empty(str) ==
  IF Len(str) = 0 THEN ParseStop_mk(NewParse("LE"))
  ELSE Run(parseType(NewParse("LE"),
                     <<[f |-> "toTypes_TypeCont", endpos |-> Len(str)]>>))
\* The parser p that DBusObjectSignature::toTypes constructs.
toTypes_mk(str) ==
  Run(parseType(NewParse("LE"),
                <<[f |-> "toTypes_TypeCont", endpos |-> Len(str)]>>))

\* The feeding loop of toTypes has ended: it has thrown or returns.
toTypes_done(p) == p.st # "wait" \/ maxRequiredBytes(Head(p.stk)) = 0

\* One iteration of the feeding loop of toTypes.
toTypes_iter(p, str) ==
  LET required == maxRequiredBytes(Head(p.stk))
      endpos == Len(str)
  IN IF required > endpos - p.pos
     THEN ParseError(p, p.pos, "DBusType::fromSignature not enough bytes")
     ELSE Parse_parse(p, SubSeq(str, p.pos + 1, p.pos + required))

\* The feeding loop of DBusObjectSignature::toTypes.
RECURSIVE toTypes_loop(_, _)
toTypes_loop(p, str) ==
  IF toTypes_done(p) THEN p
  ELSE toTypes_loop(toTypes_iter(p, str), str)

\* DBusObjectSignature::toTypes: the final parser; its ts field holds the
\* types on success.
toTypes(str) == toTypes_loop(toTypes_mk(str), str)

\* getBodyTypesFromHeader that looks the Signature field up even when the
\* header announces no body.
getBodyTypesFromHeader_always(header) ==
  LET i == getHeader_lookupField(header, MSGHDR_SIGNATURE)
  IN IF i = 0
     THEN Throw(NewParse("LE"), "ObjectCastError", 0,
                "DBusMessage::getHeader_lookupField")
     ELSE LET value == header.es[7].es[i].es[2].c
          IN IF value.k # "g"
             THEN Throw(NewParse("LE"), "ObjectCastError", 0, "Signature")
             ELSE toTypes(value.s)

\* BodyCont::getBodyTypesFromHeader: a parser in state "err" when the
\* constructor throws, else one whose ts field holds the body types.
getBodyTypesFromHeader(header) ==
  IF getHeader_bodySize(header) = 0 THEN NewParse("LE")
  ELSE LET i == getHeader_lookupField(header, MSGHDR_SIGNATURE)
       IN IF i = 0
          THEN Throw(NewParse("LE"), "ObjectCastError", 0,
                     "DBusMessage::getHeader_lookupField")
          ELSE LET value == header.es[7].es[i].es[2].c
               IN IF value.k # "g"
                  THEN Throw(NewParse("LE"), "ObjectCastError", 0,
                             "Signature")
                  ELSE toTypes(value.s)

\* The switch of parseType with a default that reads a byte type.
LetterOf_any(c) ==
  LET hits == {k \in {"y", "b", "q", "n", "u", "i", "t", "x", "d", "h", "s",
                      "o", "g", "v", "a", "(", ")", "{"} : LetterCode(k) = c}
  IN IF hits = {} THEN "y" ELSE CHOOSE k \in hits : TRUE

\* The type letter read by parseType, or "" for any other character.
LetterOf(c) ==
  LET hits == {k \in {"y", "b", "q", "n", "u", "i", "t", "x", "d", "h", "s",
                      "o", "g", "v", "a", "(", ")", "{"} : LetterCode(k) = c}
  IN IF hits = {} THEN "" ELSE CHOOSE k \in hits : TRUE

\* TypeCont::parse of the variant parser without the check of the position
\* against the declared end of the signature.
Variant_TypeCont_parse_nolen(m, endpos, t, stk) ==
  ParseZeros_mk(m, 1, <<[f |-> "Variant_ZerosCont", t |-> t]>> \o stk)

\* TypeCont::parse of the variant parser: t is the type that was read.
Variant_TypeCont_parse(m, endpos, t, stk) ==
  IF m.pos # endpos
  THEN ParseError(m, m.pos, "Incorrect variant signature length.")
  ELSE ParseZeros_mk(m, 1, <<[f |-> "Variant_ZerosCont", t |-> t]>> \o stk)

\* Cont::parse of the Boolean parser that accepts every non-zero value.
Boolean_Cont_parse_any(m, b, stk) ==
  Call(m, stk, ObjBoolean(IF FromDigits(b) > 1 THEN 1 ELSE FromDigits(b)))

\* Cont::parse of the Boolean parser: b is the decoded 32-bit value.
Boolean_Cont_parse(m, b, stk) ==
  IF FromDigits(b) > 1
  THEN ParseError(m, m.pos, "Boolean value that is not 0 or 1.")
  ELSE Call(m, stk, ObjBoolean(FromDigits(b)))

\* TypeCont::parse of toTypes that keeps only the type read last.
toTypes_TypeCont_parse_last(m, c, t) ==
  LET m1 == [m EXCEPT !.ts = <<t>>]
  IN IF m.pos < c.endpos THEN parseType(m1, <<c>>) ELSE ParseStop_mk(m1)

\* TypeCont::parse of toTypes: c is the continuation, t the type read.
toTypes_TypeCont_parse(m, c, t) ==
  LET m1 == [m EXCEPT !.ts = Append(@, t)]
  IN IF m.pos < c.endpos THEN parseType(m1, <<c>>) ELSE ParseStop_mk(m1)

\* One continuation invocation: Head(m.stk) is invoked with m.arg.
Invoke(m) ==
  LET c == Head(m.stk)
      rest == Tail(m.stk)
      arg == m.arg
  IN
  CASE c.f = "PaddingCont" -> mkObjectParserImpl(m, c.t, rest)
    [] c.f = "Char_Cont" -> Call(m, rest, ObjChar(arg))
    [] c.f = "Boolean_Cont" -> Boolean_Cont_parse(m, arg, rest)
    [] c.f = "Scalar_Cont" -> Call(m, rest, ObjScalar(c.kind, arg))
    [] c.f = "String32_LengthCont" -> parseString(m, FromDigits(arg), rest)
    [] c.f = "String8_LengthCont" -> parseString(m, arg, rest)
    [] c.f = "StringCont" ->
         ParseZeros_mk(m, 1, <<[f |-> "String_ZerosCont", str |-> arg]>>
                               \o rest)
    [] c.f = "String_ZerosCont" -> Call(m, rest, c.str)
    [] c.f = "String_Cont" -> Call(m, rest, ObjString(c.kind, arg))
    \* The signature grammar.
    [] c.f = "parseType_Cont" ->
         LET k == LetterOf(arg)
         IN CASE k = "a" -> parseType(m, <<[f |-> "ContArray"]>> \o rest)
              [] k = "(" ->
                   parseType(m, <<[f |-> "ContStruct", fts |-> << >>]>>
                                  \o rest)
              [] k = ")" -> CallCloseParen(m, rest)
              [] k = "{" -> parseType(m, <<[f |-> "ContDictKey"]>> \o rest)
              [] k = "" ->
                   ParseError(m, m.pos, "Invalid type character")
              [] OTHER -> Call(m, rest, [k |-> k])
    [] c.f = "ContArray" ->
         IF m.meth = "parseCloseParen"
         THEN ParseError(m, m.pos,
                         "Unexpected close paren while parsing array type.")
         ELSE Call(m, rest, TArray(arg))
    [] c.f = "ContStruct" ->
         IF m.meth = "parseCloseParen"
         THEN Call(m, rest, TStruct(c.fts))
         ELSE parseType(m, <<[f |-> "ContStruct",
                              fts |-> Append(c.fts, arg)]>> \o rest)
    [] c.f = "ContDictKey" ->
         IF m.meth = "parseCloseParen"
         THEN ParseError(m, m.pos,
                  "Unexpected close paren while parsing dict entry type.")
         ELSE parseType(m, <<[f |-> "ContDictValue", kt |-> arg]>> \o rest)
    [] c.f = "ContDictValue" ->
         IF m.meth = "parseCloseParen"
         THEN ParseError(m, m.pos,
                  "Unexpected close paren while parsing dict entry type.")
         ELSE ParseChar_mk(m, <<[f |-> "ContDictCloseBrace", kt |-> c.kt,
                                 vt |-> arg]>> \o rest)
    [] c.f = "ContDictCloseBrace" ->
         IF arg # LetterCode("}")
         THEN ParseError(m, m.pos, "Expected a '}' character.")
         ELSE Call(m, rest, TDictEntry(c.kt, c.vt))
    [] c.f = "toTypes_TypeCont" ->
         IF m.meth = "parseCloseParen"
         THEN ParseError(m, m.pos,
                         "Unexpected close paren while parsing signature.")
         ELSE toTypes_TypeCont_parse(m, c, arg)
    \* Variant.
    [] c.f = "Variant_LengthCont" ->
         LET r == builtin_add_overflow(ToDigits(m.pos, SizeBytes), <<arg>>)
         IN IF r.overflow
            THEN ParseError(m, m.pos, "Signature length integer overflow.")
            ELSE parseType(m, <<[f |-> "Variant_TypeCont",
                                 endpos |-> FromDigits(r.res)]>> \o rest)
    [] c.f = "Variant_TypeCont" ->
         IF m.meth = "parseCloseParen"
         THEN ParseError(m, m.pos,
                "Unexpected close paren while parsing variant signature.")
         ELSE Variant_TypeCont_parse(m, c.endpos, arg, rest)
    [] c.f = "Variant_ZerosCont" -> mkObjectParser(m, c.t, rest)
    [] c.f = "Variant_ObjectCont" -> Call(m, rest, ObjVariant(arg))
    \* DictEntry.
    [] c.f = "DictEntry_KeyCont" ->
         mkObjectParser(m, c.t, <<[f |-> "DictEntry_ValueCont",
                                   key |-> arg]>> \o rest)
    [] c.f = "DictEntry_ValueCont" -> Call(m, rest, ObjDictEntry(c.key, arg))
    \* Array.
    [] c.f = "Array_LengthCont" ->
         parse_alignment(m, c.t, <<[f |-> "Array_PaddingCont", t |-> c.t,
                                    len |-> arg]>> \o rest)
    [] c.f = "Array_PaddingCont" ->
         LET r == builtin_add_overflow(ToDigits(m.pos, SizeBytes), c.len)
         IN IF r.overflow
            THEN ParseError(m, m.pos, "Array length integer overflow.")
            ELSE parseArray(m, c.t, FromDigits(r.res), << >>, rest)
    [] c.f = "parseArray_Cont" ->
         parseArray(m, c.t, c.endpos, Append(c.elements, arg), rest)
    \* Struct and message body.
    [] c.f = "parseObjects_Cont" ->
         parseObjects(m, c.types, c.i + 1,
                      <<[Head(rest) EXCEPT !.objects = Append(@, arg)]>>
                        \o Tail(rest))
    [] c.f = "parseStruct_Cont" -> Call(m, rest, ObjStruct(c.objects))
    \* The completion continuation of parse_dbus_object_from_buffer.
    [] c.f = "Result_Cont" ->
         ParseStop_mk([m EXCEPT !.res =
           [set |-> TRUE, obj |-> arg,
            calls |-> IF m.res.set THEN m.res.calls + 1 ELSE 1]])
    \* DBusMessage::parse.
    [] c.f = "HeaderCont" ->
         LET m1 == [m EXCEPT !.res = [set |-> TRUE, header |-> arg,
                                      body |-> << >>]]
             bt == getBodyTypesFromHeader(arg)
         IN IF bt.st = "err"
            THEN [m1 EXCEPT !.st = "err", !.arg = 0, !.meth = "",
                            !.err = bt.err]
            ELSE parse_alignment(m1, TUint64,
                                 <<[f |-> "Message_PaddingCont"],
                                   [f |-> "BodyCont", objects |-> << >>,
                                    bodyTypes |-> bt.ts]>> \o rest)
    [] c.f = "Message_PaddingCont" ->
         parseObjects(m, Head(rest).bodyTypes, 0, rest)
    [] c.f = "BodyCont" ->
         ParseStop_mk([m EXCEPT !.res.body = c.objects])

\* The chain of continuation invocations of one call of Parse::parse.
Run(m) ==
  IF m.st # "call" THEN m
  ELSE IF m.n > ChainFuel THEN [m EXCEPT !.st = "deep", !.arg = 0,
                                         !.meth = ""]
  ELSE Run(Invoke(m))

\* parse_dbus_object_from_buffer: the parser for an object of type t.
ObjectParser(E, t) ==
  Run(mkObjectParser(NewParse(E), t, <<[f |-> "Result_Cont"]>>))

\* Parse p(DBusMessage::parse<E>(message)).
MessageParser(E) ==
  Run(mkObjectParser(NewParse(E), headerType, <<[f |-> "HeaderCont"]>>))

(***************************************************************************)
(* Messages.                                                               *)
(***************************************************************************)
DBusHeaderField_mk(name, v) == ObjStruct(<<ObjChar(name), v>>)

\* DBusMessageBody::signature.
DBusMessageBody_signature(body) ==
  TypesToString([i \in 1..Len(body) |-> getType(body[i])])

SerializerDryRun ==
  [mode |-> "dry", E |-> "LE", pos |-> 0, buf |-> << >>, over |-> FALSE,
   sizes |-> << >>, cnt |-> 0, ret |-> 0, pads |-> {}, spans |-> << >>,
   nodes |-> << >>, starts |-> << >>]

\* The size pass run from the position where the fixed part of the header
\* ends.
DBusMessageBody_serializedSize_from4(body) ==
  Seq_serialize([SerializerDryRun EXCEPT !.pos = 4], body).pos
\* DBusMessageBody::serializedSize.
DBusMessageBody_serializedSize(body) ==
  Seq_serialize(SerializerDryRun, body).pos

\* DBusMessage::serialize.
DBusMessage_serialize(s, msg) ==
  Seq_serialize(insertPadding(serialize(s, msg.header), alignment(TUint64)),
                msg.body)

\* send_dbus_message: the size pass, then the emit pass.
dbus_message_to_buffer(E, msg) ==
  LET s0 == DBusMessage_serialize(SerializerInitArraySizes, msg)
  IN DBusMessage_serialize(SerializeToBuffer(E, s0.sizes, s0.pos), msg)

(***************************************************************************)
(* The generator of types and values (randomType / randomObject), with     *)
(* its random choices replaced by small sets.                              *)
(***************************************************************************)
\* The sequences over S of length at most n.
SeqsUpTo(S, n) == UNION {[1..l -> S] : l \in 0..n}

randomString == {[i \in 1..l |-> 96 + i] : l \in 0..MaxStr}

\* The types a generated signature value spells.
SignatureTypes == {TUint32, TArray(TStruct(<<TChar, TVariant>>))}

\* The types of the children of generated variants.
VariantTypes ==
  {TUint32, TUint64, TArray(TChar), TStruct(<<TChar, TUint16>>)}

RECURSIVE randomObject(_)
RECURSIVE randomObjects(_)
randomObject(t) ==
  CASE t.k = "y" -> {ObjChar(7)}
    [] t.k = "b" -> {ObjBoolean(0), ObjBoolean(1)}
    [] t.k \in {"q", "n"} -> {ObjScalar(t.k, <<1, 2>>)}
    [] t.k \in {"u", "i", "h"} -> {ObjScalar(t.k, <<1, 2, 3, 4>>)}
    [] t.k \in {"t", "x", "d"} ->
         {ObjScalar(t.k, <<1, 2, 3, 4, 5, 6, 7, 8>>)}
    [] t.k \in {"s", "o"} -> {ObjString(t.k, str) : str \in randomString}
    [] t.k = "g" ->
         {ObjString("g", TypeToString(st)) : st \in SignatureTypes}
    [] t.k = "v" ->
         UNION {{ObjVariant(o) : o \in randomObject(vt)} :
                vt \in VariantTypes}
    [] t.k = "{" ->
         {ObjDictEntry(key, val) :
            key \in randomObject(t.kt), val \in randomObject(t.vt)}
    [] t.k = "a" ->
         {ObjArray_mk(t.bt, es) :
            es \in SeqsUpTo(randomObject(t.bt), MaxElems)}
    [] t.k = "(" -> {ObjStruct(es) : es \in randomObjects(t.fts)}

\* The sequences of objects of the given sequence of types.
randomObjects(ts) ==
  IF Len(ts) = 0 THEN {<< >>}
  ELSE {<<o>> \o os : o \in randomObject(Head(ts)),
                      os \in randomObjects(Tail(ts))}

\* The types of the generated top-level objects.
randomType ==
  {TChar, TBoolean, TUint16, TUint32, TUint64, TDouble, TString,
   TSignature, TVariant,
   TArray(TChar), TArray(TUint16), TArray(TUint64),
   TArray(TArray(TUint64)), TArray(TStruct(<<TChar, TUint64>>)),
   TArray(TStruct(<< >>)), TArray(TDictEntry(TUint32, TString)),
   TStruct(<< >>), TStruct(<<TChar, TUint16>>), TStruct(<<TChar, TDouble>>),
   TStruct(<<TChar, TStruct(<<TBoolean, TArray(TUint64)>>)>>),
   TStruct(<<TChar, TVariant>>), TDictEntry(TChar, TString)}

Endians == {"LE", "BE"}

\* dbus_method_call: the message it sends.
dbus_method_call(serialNumber, body, path, interface, destination, member, flags) ==
  LET bodySize == DBusMessageBody_serializedSize(body)
      header ==
        ObjStruct(<<
          ObjChar(108),  \* 'l'
          ObjChar(MSGTYPE_METHOD_CALL),
          ObjChar(flags),
          ObjChar(1),
          ObjScalar("u", ToDigits(bodySize, 4)),
          ObjScalar("u", ToDigits(serialNumber, 4)),
          ObjArray_mk1(<<
            DBusHeaderField_mk(MSGHDR_PATH,
                               ObjVariant(ObjString("o", path))),
            DBusHeaderField_mk(MSGHDR_INTERFACE,
                               ObjVariant(ObjString("s", interface))),
            DBusHeaderField_mk(MSGHDR_DESTINATION,
                               ObjVariant(ObjString("s", destination))),
            DBusHeaderField_mk(MSGHDR_MEMBER,
                               ObjVariant(ObjString("s", member))),
            DBusHeaderField_mk(MSGHDR_SIGNATURE,
                               ObjVariant(ObjString("g",
                                 DBusMessageBody_signature(body))))>>)>>)
  IN [header |-> header, body |-> body]

\* dbus_method_call_with_fds: the message it sends.
dbus_method_call_with_fds(serialNumber, body, path, interface, destination, member, nfds, flags) ==
  LET bodySize == DBusMessageBody_serializedSize(body)
      header ==
        ObjStruct(<<
          ObjChar(108),  \* 'l'
          ObjChar(MSGTYPE_METHOD_CALL),
          ObjChar(flags),
          ObjChar(1),
          ObjScalar("u", ToDigits(bodySize, 4)),
          ObjScalar("u", ToDigits(serialNumber, 4)),
          ObjArray_mk1(<<
            DBusHeaderField_mk(MSGHDR_PATH,
                               ObjVariant(ObjString("o", path))),
            DBusHeaderField_mk(MSGHDR_INTERFACE,
                               ObjVariant(ObjString("s", interface))),
            DBusHeaderField_mk(MSGHDR_DESTINATION,
                               ObjVariant(ObjString("s", destination))),
            DBusHeaderField_mk(MSGHDR_MEMBER,
                               ObjVariant(ObjString("s", member))),
            DBusHeaderField_mk(MSGHDR_SIGNATURE,
                               ObjVariant(ObjString("g",
                                 DBusMessageBody_signature(body)))),
            DBusHeaderField_mk(MSGHDR_UNIX_FDS,
                               ObjVariant(ObjScalar("u",
                                 ToDigits(nfds, 4))))>>)>>)
  IN [header |-> header, body |-> body]

\* dbus_method_reply: the message it sends.
dbus_method_reply(serialNumber, replySerialNumber, body, destination) ==
  LET bodySize == DBusMessageBody_serializedSize(body)
      header ==
        ObjStruct(<<
          ObjChar(108),  \* 'l'
          ObjChar(MSGTYPE_METHOD_RETURN),
          ObjChar(MSGFLAGS_EMPTY),
          ObjChar(1),
          ObjScalar("u", ToDigits(bodySize, 4)),
          ObjScalar("u", ToDigits(serialNumber, 4)),
          ObjArray_mk1(<<
            DBusHeaderField_mk(MSGHDR_DESTINATION,
                               ObjVariant(ObjString("s", destination))),
            DBusHeaderField_mk(MSGHDR_SIGNATURE,
                               ObjVariant(ObjString("g",
                                 DBusMessageBody_signature(body)))),
            DBusHeaderField_mk(MSGHDR_REPLY_SERIAL,
                               ObjVariant(ObjScalar("u",
                                 ToDigits(replySerialNumber, 4))))>>)>>)
  IN [header |-> header, body |-> body]

\* The bodies of the generated messages.
randomBody ==
  {<< >>,
   <<ObjScalar("u", <<1, 2, 3, 4>>)>>,
   <<ObjChar(7), ObjScalar("t", <<1, 2, 3, 4, 5, 6, 7, 8>>)>>}

(***************************************************************************)
(* The inputs.  A job is a byte stream together with the value it was      *)
(* serialized from and the offsets of the padding the serializer inserted; *)
(* mut is 0, or the index of the one byte of the stream that was replaced  *)
(* after serialization.  ser is what the two passes left behind: the calls *)
(* of recordArraySize of the size pass (sized) and of the emit pass        *)
(* (emitted), the array sizes, the emit pass's arrayCount_ and its array   *)
(* bodies, and whether the emit pass stayed inside buffer and array sizes. *)
(***************************************************************************)
\* The values a replaced byte takes.
MutBytes == {0, 1}

\* The pairs of an index of the input and a byte of S other than the one
\* the input holds there.
Replacements(input, n, S) ==
  {jb \in (1..Min(n, Len(input))) \X S : input[jb[1]] # jb[2]}

Mutations(job) ==
  {[job EXCEPT !.input[jb[1]] = jb[2], !.mut = jb[1]] :
     jb \in Replacements(job.input, Len(job.input), MutBytes)}

\* What the size pass s0 and the emit pass s left behind.
PassTrace(s0, s) ==
  [sized |-> s0.nodes, sizes |-> s0.sizes, emitted |-> s.nodes,
   cnt |-> s.cnt, spans |-> s.spans, starts |-> s.starts, ok |-> ~s.over]

ObjectJob(E, t, v) ==
  LET s0 == serialize(SerializerInitArraySizes, v)
      s == dbus_object_to_buffer(E, v)
  IN [kind |-> "obj", E |-> E, t |-> t, v |-> v, input |-> s.buf,
      pads |-> s.pads, mut |-> 0, ser |-> PassTrace(s0, s)]

MessageJob(msg) ==
  LET s0 == DBusMessage_serialize(SerializerInitArraySizes, msg)
      s == dbus_message_to_buffer("LE", msg)
  IN [kind |-> "msg", E |-> "LE", t |-> headerType, v |-> msg,
      input |-> s.buf, pads |-> s.pads, mut |-> 0,
      ser |-> PassTrace(s0, s)]

\* The messages of a big-endian peer, flagged 'B': a header without fields
\* and without a body, and a method call with a body.
BigEndianMessages ==
  LET call == dbus_method_call(1, <<ObjScalar("u", <<1, 2, 3, 4>>)>>,
                               <<47>>, <<97>>, <<98>>, <<99>>, MSGFLAGS_EMPTY)
  IN {[header |->
         ObjStruct(<<ObjChar(66),  \* 'B'
                     ObjChar(MSGTYPE_METHOD_CALL),
                     ObjChar(MSGFLAGS_EMPTY),
                     ObjChar(1),
                     ObjScalar("u", ToDigits(0, 4)),
                     ObjScalar("u", ToDigits(1, 4)),
                     ObjArray_mk0(headerFieldType)>>),
       body |-> << >>],
      [call EXCEPT !.header.es[1] = ObjChar(66)]}

\* What receive_dbus_message reads when the peer wrote msg in big endian.
ReceivedJob(msg) ==
  LET s0 == DBusMessage_serialize(SerializerInitArraySizes, msg)
      s == dbus_message_to_buffer("BE", msg)
  IN [kind |-> "msg", E |-> "LE", t |-> headerType, v |-> msg,
      input |-> s.buf, pads |-> s.pads, mut |-> 0,
      ser |-> PassTrace(s0, s)]

\* The values a replaced byte takes in the first bytes of a Variant or a
\* Boolean: a length or value of 2, and the type letter 'y'.
HeadBytes == {2, 121}

HeadMutations(job) ==
  IF job.t \in {TVariant, TBoolean}
  THEN {[job EXCEPT !.input[jb[1]] = jb[2], !.mut = jb[1]] :
          jb \in Replacements(job.input, 4, HeadBytes)}
  ELSE {}

ObjectJobs ==
  UNION {UNION {{ObjectJob(E, t, v) : v \in randomObject(t)} :
                t \in randomType} : E \in Endians}

MessageJobs ==
  {MessageJob(dbus_method_call(1, body, <<47>>, <<97>>, <<98>>, <<99>>,
                               MSGFLAGS_EMPTY)) : body \in randomBody}

ReceivedJobs == {ReceivedJob(msg) : msg \in BigEndianMessages}

\* A message of a peer whose header announces a body of 4 bytes and holds
\* a Signature field with the empty signature.
EmptySignatureMessage ==
  LET msg == dbus_method_call(1, <<ObjScalar("u", <<1, 2, 3, 4>>)>>, <<47>>,
                              <<97>>, <<98>>, <<99>>, MSGFLAGS_EMPTY)
  IN [msg EXCEPT !.header.es[7].es[5].es[2] =
                   ObjVariant(ObjString("g", << >>))]

Jobs ==
  UNION {{job} \cup Mutations(job) \cup HeadMutations(job) :
           job \in ObjectJobs \cup MessageJobs}
    \cup ReceivedJobs

(***************************************************************************)
(* The state machine.  One input is parsed twice: first by the feeding     *)
(* loop of the library's own callers (parse_dbus_object_from_buffer for an *)
(* object, receive_dbus_message for a message), which always feeds         *)
(* maxRequiredBytes(); then by a caller that feeds any permitted number of *)
(* bytes.  A delivered value is serialized again.                          *)
(*   job    the input                                                      *)
(*   phase  "harness" while the library's loop runs, then "feed"           *)
(*   h      the parser driven by the library's loop                        *)
(*   p      the parser driven by the arbitrary caller                      *)
(*   chunk  the last call p.parse(buf, n): the stream offset of buf and n,  *)
(*          and whether some call so far passed fewer bytes than           *)
(*          maxRequiredBytes()                                             *)
(*   out    the bytes of the value p delivered, serialized again, with the  *)
(*          array bodies, padding offsets and value offsets of that pass    *)
(* A second state machine calls the functions of the library that take no  *)
(* byte stream: the signature parser and the constructors of values and    *)
(* messages.                                                               *)
(*   call   the function called and its arguments                          *)
(*   ret    what the call returned                                         *)
(***************************************************************************)
VARIABLES job, phase, h, p, chunk, out, call, ret

vars == <<job, phase, h, p, chunk, out, call, ret>>

NoCall == [f |-> "none"]
\* set: the call has returned or thrown; run: it is inside its loop.
NoReturn == [set |-> FALSE, run |-> FALSE]

NewParser(j) ==
  IF j.kind = "obj" THEN ObjectParser(j.E, j.t) ELSE MessageParser(j.E)

\* sizeof(buf) of receive_dbus_message.
ReceiveBufSize == 256

Init ==
  /\ job \in Jobs
  /\ phase = "harness"
  /\ h = NewParser(job)
  /\ p = NewParser(job)
  /\ chunk = [from |-> 0, n |-> 0, short |-> FALSE]
  /\ out = [set |-> FALSE]
  /\ call = NoCall
  /\ ret = NoReturn

\* The parser has reached ParseStop.
Stopped(m) == m.st = "wait" /\ Head(m.stk).f = "ParseStop"

\* One iteration of the loop of parse_dbus_object_from_buffer or of
\* receive_dbus_message.
HarnessStep ==
  /\ phase = "harness"
  /\ LET required == maxRequiredBytes(Head(h.stk))
         n == IF job.kind = "msg" THEN Min(required, ReceiveBufSize)
              ELSE required
         next == Parse_parse(h, SubSeq(job.input, h.pos + 1, h.pos + n))
     IN IF required = 0
        THEN /\ phase' = "feed"
             /\ h' = h
        ELSE IF n > Len(job.input) - h.pos
        THEN /\ phase' = "feed"
             /\ h' = ParseError(h, h.pos, "not enough bytes")
        ELSE /\ h' = next
             /\ phase' = IF next.st = "wait" THEN "harness" ELSE "feed"
  /\ UNCHANGED <<job, p, chunk, out, call, ret>>

\* The chunk sizes tried between lo and hi: the small ones and the largest.
ChunkSizes(lo, hi) == {n \in lo..hi : n <= MaxChunk \/ n = hi}

\* p.parse(buf, n) for any n the contract of Parse::parse permits and the
\* input still has; a caller stops at maxRequiredBytes() = 0.
Feed ==
  /\ phase = "feed"
  /\ p.st = "wait"
  /\ maxRequiredBytes(Head(p.stk)) > 0
  /\ \E n \in ChunkSizes(minRequiredBytes(Head(p.stk)),
                          Min(maxRequiredBytes(Head(p.stk)),
                              Len(job.input) - p.pos)) :
       /\ p' = Parse_parse(p, SubSeq(job.input, p.pos + 1, p.pos + n))
       /\ chunk' = [from |-> p.pos, n |-> n,
                    short |-> chunk.short
                                \/ n < maxRequiredBytes(Head(p.stk))]
  /\ UNCHANGED <<job, phase, h, out, call, ret>>

\* The delivered value is serialized again (the third step of
\* check_serialize_and_parse; send_dbus_message for a message).
Reserialize ==
  /\ phase = "feed"
  /\ Stopped(p)
  /\ p.res.set
  /\ ~out.set
  /\ LET s == IF job.kind = "obj"
              THEN dbus_object_to_buffer(job.E, p.res.obj)
              ELSE dbus_message_to_buffer(
                     job.E, [header |-> p.res.header, body |-> p.res.body])
     IN out' = [set |-> TRUE, buf |-> s.buf, spans |-> s.spans,
                pads |-> s.pads, starts |-> s.starts]
  /\ UNCHANGED <<job, phase, h, p, chunk, call, ret>>

Next == HarnessStep \/ Feed \/ Reserialize

Spec == Init /\ [][Next]_vars

(***************************************************************************)
(* The calls of the second state machine.                                  *)
(***************************************************************************)
\* The primitive types: the global instances.
PrimitiveTypes ==
  {TChar, TBoolean, TUint16, TInt16, TUint32, TInt32, TUint64, TInt64,
   TDouble, TUnixFD, TString, TPath, TSignature, TVariant}

\* The longest signature: str_.size() fits in a uint8_t.
SignatureMax == 255

\* A struct of eleven structs of twenty-one bytes: its signature has
\* 2 + 11 * 23 = SignatureMax bytes.
LongType == TStruct([i \in 1..11 |-> TStruct([j \in 1..21 |-> TChar])])

\* The types whose signatures are parsed back: the primitive types and
\* the generated types.
SignatureSample ==
  PrimitiveTypes \cup randomType
    \cup {TStruct(<<TArray(TChar), TStruct(<<TUint32>>)>>),
          TArray(TArray(TDictEntry(TString, TVariant))),
          TDictEntry(TString, TStruct(<<TChar>>))}

\* The characters of the generated strings: y a ( ) { } and !.
SigChars == {121, 97, 40, 41, 123, 125, 33}

\* Longer strings around a dict entry: a third type, a missing brace, a
\* close paren in place of a type, and a key that is a container.
DictStrings ==
  {<<123, 121, 121, 121, 125>>, <<123, 121, 121>>, <<97, 123, 121, 41>>,
   <<123, 121, 121, 125, 125>>, <<123, 97, 121, 121, 125>>,
   <<123, 40, 121, 41, 121, 125>>, <<97, 123, 123, 121, 121, 125, 121, 125>>}

ToTypesCalls ==
  {[f |-> "toTypes", types |-> ts, str |-> TypesToString(ts)] :
     ts \in (SeqsUpTo(SignatureSample, MaxTypes) \ {<< >>})
              \cup {<<LongType>>}}
    \cup {[f |-> "toTypes", types |-> << >>, str |-> str] :
            str \in SeqsUpTo(SigChars, MaxSigLen) \cup DictStrings}

\* The elements arrays are constructed from.
ArrayElements ==
  {ObjChar(7), ObjScalar("u", <<1, 2, 3, 4>>), ObjString("s", <<97>>)}

\* The calls of DBusObjectArray::mk1, DBusObjectArray::mk and the
\* constructor of DBusObjectArray.
ArrayCalls ==
  {[f |-> fn, baseType |-> bt, elements |-> es] :
     fn \in {"Array_mk1", "Array_mk", "Array_ctor"},
     bt \in {TChar, TUint32},
     es \in SeqsUpTo(ArrayElements, MaxElems)}

\* The calls of DBusObjectSignature::mk and DBusObjectVariant::mk: short
\* signatures and signatures longer than SignatureMax bytes.
SignatureCalls ==
  {[f |-> "Signature_mk", str |-> [i \in 1..n |-> LetterCode("y")]] :
     n \in {0, 1, 2, 3, SignatureMax + 1, SignatureMax + 2,
            SignatureMax + 3}}

\* The children of the variants: the empty arrays of LongType have types
\* with signatures of SignatureMax + 1 and SignatureMax + 2 bytes.
VariantCalls ==
  {[f |-> "Variant_mk", object |-> o] :
     o \in {ObjScalar("u", <<1, 2, 3, 4>>), ObjArray_mk0(TChar),
            ObjStruct(<<ObjChar(7), ObjString("s", <<97>>)>>),
            ObjArray_mk0(LongType), ObjArray_mk0(TArray(LongType))}}

\* The bodies handed to dbus_method_call, dbus_method_call_with_fds and
\* dbus_method_reply: values of every alignment behind a single byte,
\* arrays with and without elements, a struct and a variant.
CallBodies ==
  randomBody \cup
  {<<ObjChar(7), ObjScalar("q", <<1, 2>>), ObjString("s", <<97>>)>>,
   <<ObjString("s", <<97, 98>>), ObjScalar("t", <<1, 2, 3, 4, 5, 6, 7, 8>>)>>,
   <<ObjChar(7), ObjArray_mk0(TUint64)>>,
   <<ObjChar(7),
     ObjArray_mk1(<<ObjScalar("t", <<1, 2, 3, 4, 5, 6, 7, 8>>)>>)>>,
   <<ObjArray_mk1(<<ObjString("s", <<97>>), ObjString("s", << >>)>>),
     ObjChar(7)>>,
   <<ObjChar(7), ObjStruct(<<ObjChar(8), ObjScalar("u", <<1, 2, 3, 4>>)>>)>>,
   <<ObjVariant(ObjScalar("t", <<1, 2, 3, 4, 5, 6, 7, 8>>)), ObjChar(7)>>}

\* The calls of the three functions that build and send a message; n is
\* the number of file descriptors or the serial number replied to.
MessageCalls ==
  {[f |-> f, body |-> body, destination |-> destination, n |-> n] :
     f \in {"dbus_method_call", "dbus_method_call_with_fds",
            "dbus_method_reply"},
     body \in CallBodies, destination \in randomString, n \in {0, 1}}

\* Positions of a parser as size_t digits: the start, a small offset, and
\* offsets within a 32-bit and within an 8-bit length of the largest one.
SizePositions ==
  {Zeros(SizeBytes), Zeros(SizeBytes - 1) \o <<8>>,
   [i \in 1..SizeBytes |-> IF i <= SizeBytes - 4 THEN 255 ELSE 0],
   [i \in 1..SizeBytes |-> IF i < SizeBytes THEN 255 ELSE 0],
   [i \in 1..SizeBytes |-> IF i < SizeBytes THEN 255 ELSE 252],
   [i \in 1..SizeBytes |-> 255]}

\* The continuations that add a length to the position, invoked at a
\* position pos with a length len: the 32-bit length of an array and the
\* 8-bit length of the signature of a variant.
LengthContCalls ==
  {[f |-> "Array_PaddingCont", pos |-> pos, len |-> len] :
     pos \in SizePositions,
     len \in {<<0, 0, 0, 0>>, <<0, 0, 0, 3>>, <<0, 0, 0, 4>>,
              <<0, 0, 1, 0>>, <<1, 0, 0, 0>>, <<255, 255, 255, 255>>}}
    \cup {[f |-> "Variant_LengthCont", pos |-> pos, len |-> <<len>>] :
            pos \in SizePositions, len \in {0, 1, 3, 4, 255}}

\* The values handed to dbus_object_to_buffer: arrays without elements of
\* element types of every alignment, alone and behind a byte, variants of
\* children of every alignment, and values with arrays inside arrays.
SerializeObjects ==
  LET u64 == ObjScalar("t", <<1, 2, 3, 4, 5, 6, 7, 8>>)
      deadbeef == ObjScalar("u", <<222, 173, 190, 239>>)
      empties == {ObjArray_mk0(t) :
                    t \in {TChar, TUint16, TUint32, TUint64, TString,
                           TVariant, TStruct(<<TUint32, TString>>),
                           TDictEntry(TChar, TString), TArray(TUint64)}}
      children == {ObjChar(7), ObjScalar("q", <<1, 2>>), deadbeef, u64,
                   ObjString("s", <<97>>), ObjArray_mk0(TUint64),
                   ObjStruct(<<ObjChar(7), deadbeef>>)}
  IN empties
       \cup {ObjStruct(<<ObjChar(7), a>>) : a \in empties}
       \cup {ObjVariant(c) : c \in children}
       \cup {ObjStruct(<<ObjChar(7), ObjVariant(c)>>) : c \in children}
       \cup {ObjArray_mk1(<<ObjArray_mk1(<<u64>>), ObjArray_mk0(TUint64),
                            ObjArray_mk1(<<u64, u64>>)>>),
             ObjArray_mk1(<<ObjVariant(ObjArray_mk1(<<ObjString("s", <<97>>),
                                                     ObjString("s", << >>)>>)),
                            ObjVariant(deadbeef)>>)}

SerializeCalls ==
  {[f |-> "dbus_object_to_buffer", E |-> E, object |-> object] :
     E \in Endians, object \in SerializeObjects}

\* What a call leaves behind: the object it returns with the bytes
\* dbus_object_to_buffer writes for it, an exception, or the abort of the
\* process by a failed assert.
Returned(v) ==
  [set |-> TRUE, run |-> FALSE, ok |-> TRUE, obj |-> v,
   wire |-> dbus_object_to_buffer("LE", v).buf]

Thrown(type) == [set |-> TRUE, run |-> FALSE, ok |-> FALSE, why |-> type]

\* A message handed to send_dbus_message or send_dbus_message_with_fds:
\* wire holds the bytes written to the socket.
Sent(msg) ==
  LET s0 == DBusMessage_serialize(SerializerInitArraySizes, msg)
      s1 == dbus_message_to_buffer("LE", msg)
  IN [set |-> TRUE, run |-> FALSE, ok |-> TRUE, msg |-> msg,
      size |-> s0.pos, sizes |-> s0.sizes, wire |-> s1.buf, pos |-> s1.pos,
      over |-> s1.over, cnt |-> s1.cnt]

Aborted == [set |-> TRUE, run |-> FALSE, ok |-> FALSE, why |-> "abort"]

\* The variables of the first state machine while the second one runs.
Idle ==
  /\ job = [kind |-> "none"]
  /\ phase = "api"
  /\ h = NewParse("LE")
  /\ p = NewParse("LE")
  /\ chunk = [from |-> 0, n |-> 0, short |-> FALSE]
  /\ out = [set |-> FALSE]

\* receive_dbus_message(fd) on a socket that holds the bytes input: the
\* parser when the function returns or throws.
RECURSIVE receive_dbus_message(_, _)
receive_dbus_message(m, input) ==
  LET required == maxRequiredBytes(Head(m.stk))
      n == Min(required, ReceiveBufSize)
      next == Parse_parse(m, SubSeq(input, m.pos + 1, m.pos + n))
  IN IF required = 0 THEN m
     ELSE IF n > Len(input) - m.pos
     THEN ParseError(m, m.pos, "No more input.")
     ELSE IF next.st = "wait" THEN receive_dbus_message(next, input)
     ELSE next

\* The messages received: a method call with a body of one Uint32, the
\* same without a body, and the same with the empty signature.
ReceiveCalls ==
  {[f |-> "receive_dbus_message", msg |-> msg] :
     msg \in {dbus_method_call(1, body, <<47>>, <<97>>, <<98>>, <<99>>,
                               MSGFLAGS_EMPTY) :
                body \in {<< >>, <<ObjScalar("u", <<1, 2, 3, 4>>)>>}}
              \cup {EmptySignatureMessage}}

Call_receive_dbus_message ==
  /\ call.f = "receive_dbus_message"
  /\ ~ret.set
  /\ ret' = [set |-> TRUE, run |-> FALSE,
             p |-> receive_dbus_message(MessageParser("LE"),
                                        MessageJob(call.msg).input)]
  /\ UNCHANGED <<job, phase, h, p, chunk, out, call>>

ApiInit ==
  /\ Idle
  /\ \/ call \in ToTypesCalls
     \/ call \in ArrayCalls
     \/ call \in SignatureCalls
     \/ call \in VariantCalls
     \/ call \in MessageCalls
     \/ call \in LengthContCalls
     \/ call \in SerializeCalls
     \/ call \in ReceiveCalls
  /\ ret = NoReturn

\* DBusObjectSignature(str).toTypes(typeStorage) up to its loop: ret.p is
\* the parser p of the function.
Call_toTypes ==
  /\ call.f = "toTypes"
  /\ ~ret.set
  /\ ~ret.run
  /\ ret' = [set |-> FALSE, run |-> TRUE, p |-> toTypes_mk(call.str)]
  /\ UNCHANGED <<job, phase, h, p, chunk, out, call>>

\* One iteration of the loop of toTypes, or its end.
Step_toTypes ==
  /\ call.f = "toTypes"
  /\ ret.run
  /\ ret' = IF toTypes_done(ret.p)
            THEN [ret EXCEPT !.set = TRUE, !.run = FALSE]
            ELSE [ret EXCEPT !.p = toTypes_iter(ret.p, call.str)]
  /\ UNCHANGED <<job, phase, h, p, chunk, out, call>>

\* DBusObjectArray::mk1(elements): elements.at(0) throws for no elements.
Call_Array_mk1 ==
  /\ call.f = "Array_mk1"
  /\ ~ret.set
  /\ ret' = IF Len(call.elements) = 0 THEN Thrown("out_of_range")
            ELSE Returned(ObjArray_mk1(call.elements))
  /\ UNCHANGED <<job, phase, h, p, chunk, out, call>>

\* DBusObjectArray::mk(baseType, elements).
Call_Array_mk ==
  /\ call.f = "Array_mk"
  /\ ~ret.set
  /\ ret' = Returned(ObjArray_mk(call.baseType, call.elements))
  /\ UNCHANGED <<job, phase, h, p, chunk, out, call>>

\* std::make_unique<DBusObjectArray>(baseType, elements).
Call_Array_ctor ==
  /\ call.f = "Array_ctor"
  /\ ~ret.set
  /\ ret' = Returned(ObjArrayCtor(call.baseType, call.elements))
  /\ UNCHANGED <<job, phase, h, p, chunk, out, call>>

\* DBusObjectSignature::mk(str): the constructor checks the length with an
\* assert, which a build with NDEBUG leaves out.
Call_Signature_mk ==
  /\ call.f = "Signature_mk"
  /\ ~ret.set
  /\ \E ndebug \in BOOLEAN :
       ret' = IF ~ndebug /\ Len(call.str) \div 256 # 0 THEN Aborted
              ELSE Returned(ObjString("g", call.str))
  /\ UNCHANGED <<job, phase, h, p, chunk, out, call>>

\* DBusObjectVariant::mk(object): the constructor builds signature_ from
\* the string of the type of the object, with the same assert.
Call_Variant_mk ==
  /\ call.f = "Variant_mk"
  /\ ~ret.set
  /\ \E ndebug \in BOOLEAN :
       ret' = IF /\ ~ndebug
                 /\ Len(TypeToString(getType(call.object))) \div 256 # 0
              THEN Aborted
              ELSE Returned(ObjVariant(call.object))
  /\ UNCHANGED <<job, phase, h, p, chunk, out, call>>

Call_dbus_method_call ==
  /\ call.f = "dbus_method_call"
  /\ ~ret.set
  /\ ret' = Sent(dbus_method_call(1 + call.n, call.body, <<47>>, <<97>>,
                                  call.destination, <<99>>, MSGFLAGS_EMPTY))
  /\ UNCHANGED <<job, phase, h, p, chunk, out, call>>

Call_dbus_method_call_with_fds ==
  /\ call.f = "dbus_method_call_with_fds"
  /\ ~ret.set
  /\ ret' = Sent(dbus_method_call_with_fds(1, call.body, <<47>>, <<97>>,
                                           call.destination, <<99>>, call.n,
                                           MSGFLAGS_EMPTY))
  /\ UNCHANGED <<job, phase, h, p, chunk, out, call>>

Call_dbus_method_reply ==
  /\ call.f = "dbus_method_reply"
  /\ ~ret.set
  /\ ret' = Sent(dbus_method_reply(2, call.n, call.body, call.destination))
  /\ UNCHANGED <<job, phase, h, p, chunk, out, call>>

\* PaddingCont::parse of the array parser at the position call.pos: it
\* throws, or goes on to parseArray with the end position endpos.
Call_Array_PaddingCont ==
  /\ call.f = "Array_PaddingCont"
  /\ ~ret.set
  /\ LET r == builtin_add_overflow(call.pos, call.len)
     IN ret' = IF r.overflow THEN Thrown("ParseError")
               ELSE [set |-> TRUE, run |-> FALSE, ok |-> TRUE,
                     endpos |-> r.res]
  /\ UNCHANGED <<job, phase, h, p, chunk, out, call>>

\* LengthCont::parse of the variant parser at the position call.pos: it
\* throws, or goes on to parseType with the end position endpos.
Call_Variant_LengthCont ==
  /\ call.f = "Variant_LengthCont"
  /\ ~ret.set
  /\ LET r == builtin_add_overflow(call.pos, call.len)
     IN ret' = IF r.overflow THEN Thrown("ParseError")
               ELSE [set |-> TRUE, run |-> FALSE, ok |-> TRUE,
                     endpos |-> r.res]
  /\ UNCHANGED <<job, phase, h, p, chunk, out, call>>

\* dbus_object_to_buffer<E>(object, size): size is the position the size
\* pass ended at, wire the buffer of that size after the emit pass, pos the
\* position the emit pass ended at, over whether it wrote outside the
\* buffer.
Call_dbus_object_to_buffer ==
  /\ call.f = "dbus_object_to_buffer"
  /\ ~ret.set
  /\ LET s0 == serialize(SerializerInitArraySizes, call.object)
         s1 == dbus_object_to_buffer(call.E, call.object)
     IN ret' = [set |-> TRUE, run |-> FALSE, ok |-> TRUE, size |-> s0.pos,
                sizes |-> s0.sizes, wire |-> s1.buf, pos |-> s1.pos,
                over |-> s1.over, cnt |-> s1.cnt]
  /\ UNCHANGED <<job, phase, h, p, chunk, out, call>>

ApiNext ==
  \/ Call_receive_dbus_message
  \/ Call_dbus_object_to_buffer
  \/ Call_Array_PaddingCont
  \/ Call_Variant_LengthCont
  \/ Call_dbus_method_call
  \/ Call_dbus_method_call_with_fds
  \/ Call_dbus_method_reply
  \/ Call_toTypes
  \/ Step_toTypes
  \/ Call_Array_mk1
  \/ Call_Array_mk
  \/ Call_Array_ctor
  \/ Call_Signature_mk
  \/ Call_Variant_mk

ApiSpec == ApiInit /\ [][ApiNext]_vars

(***************************************************************************)
(* Two Parse instances fed in any order.  h and p are the two instances,   *)
(* job.jobs their inputs, chunk.fed the sizes of the chunks each one was    *)
(* given, chunk.last the instance fed last and chunk.turns the number of   *)
(* times the feeding went from one instance to the other.                  *)
(***************************************************************************)
\* The inputs of the two instances: values of two byte orders, a message
\* with a body (whose types BodyCont allocates), and inputs that fail.
PairInputs ==
  LET arr == ObjectJob("LE", TArray(TUint64),
                       ObjArray_mk1(<<ObjScalar("t",
                                       <<1, 2, 3, 4, 5, 6, 7, 8>>)>>))
      str == ObjectJob("BE", TString, ObjString("s", <<97, 98>>))
      var == ObjectJob("LE", TVariant,
                       ObjVariant(ObjArray_mk0(TArray(TUint16))))
      msg == MessageJob(dbus_method_call(1,
               <<ObjChar(7), ObjArray_mk0(TUint64)>>, <<47>>, <<97>>,
               <<98>>, <<99>>, MSGFLAGS_EMPTY))
  IN {arr, str, var, msg,
      [arr EXCEPT !.input[5] = 1, !.mut = 5],
      [str EXCEPT !.input[7] = 1, !.mut = 7]}

PairJobs ==
  {[kind |-> "pair", jobs |-> <<j1, j2>>] : j1, j2 \in PairInputs}

\* The parser states after instance i of ps was handed buf, when the
\* instances shared one Parse::State.
FeedInstance_shared(ps, i, buf) ==
  [j \in 1..2 |-> IF j = i THEN Parse_parse(ps[j], buf)
                  ELSE [ps[j] EXCEPT !.pos = @ + Len(buf)]]
\* The parser states after instance i of ps was handed buf: state_ and
\* cont_ are members of the instance.
FeedInstance(ps, i, buf) ==
  [j \in 1..2 |-> IF j = i THEN Parse_parse(ps[j], buf) ELSE ps[j]]

PairInit ==
  /\ job \in PairJobs
  /\ phase = "pair"
  /\ h = NewParser(job.jobs[1])
  /\ p = NewParser(job.jobs[2])
  /\ chunk = [fed |-> <<<< >>, << >>>>, last |-> 0, turns |-> 0]
  /\ out = [set |-> FALSE]
  /\ call = NoCall
  /\ ret = NoReturn

\* The chunk sizes tried for an instance: the largest, and for the short
\* input of a value also a single byte.
PairChunkSizes(kind, lo, hi) ==
  {n \in lo..hi : n = hi \/ (kind = "obj" /\ n = 1)}

\* parse(buf, n) on instance i.
FeedPair(i) ==
  LET ps == <<h, p>>
      m == ps[i]
      input == job.jobs[i].input
  IN /\ m.st = "wait"
     /\ maxRequiredBytes(Head(m.stk)) > 0
     /\ \E n \in PairChunkSizes(job.jobs[i].kind,
                                 minRequiredBytes(Head(m.stk)),
                                 Min(maxRequiredBytes(Head(m.stk)),
                                     Len(input) - m.pos)) :
          LET next == FeedInstance(ps, i,
                                   SubSeq(input, m.pos + 1, m.pos + n))
          IN /\ h' = next[1]
             /\ p' = next[2]
             /\ chunk' = [fed |-> [chunk.fed EXCEPT ![i] = Append(@, n)],
                          last |-> i,
                          turns |-> IF chunk.last \in {0, i} THEN chunk.turns
                                    ELSE Min(chunk.turns + 1, 2)]
     /\ UNCHANGED <<job, phase, out, call, ret>>

FeedFirst == FeedPair(1)

FeedSecond == FeedPair(2)

\* reset(cont) on an instance that was fed: the position is 0 again and
\* the parser of its input is installed anew.
Reset ==
  /\ \E i \in 1..2 :
       /\ Len(chunk.fed[i]) > 0
       /\ h' = IF i = 1 THEN NewParser(job.jobs[1]) ELSE h
       /\ p' = IF i = 2 THEN NewParser(job.jobs[2]) ELSE p
       /\ chunk' = [chunk EXCEPT !.fed[i] = << >>]
  /\ UNCHANGED <<job, phase, out, call, ret>>

PairNext == FeedFirst \/ FeedSecond \/ Reset

PairSpec == PairInit /\ [][PairNext]_vars

(***************************************************************************)
(* The authentication handshake.  ret holds the position of dbus_sendauth  *)
(* in its code (pc, io), its buffer buf with the length pos of the line in *)
(* it, and the trace of the write and read calls made on the socket.       *)
(***************************************************************************)
\* The bytes of "AUTH EXTERNAL ", "\r\n", "NEGOTIATE_UNIX_FD\r\n" and
\* "BEGIN\r\n".
AUTH_EXTERNAL == <<65, 85, 84, 72, 32, 69, 88, 84, 69, 82, 78, 65, 76, 32>>
CRLF == <<13, 10>>
NEGOTIATE_UNIX_FD ==
  <<78, 69, 71, 79, 84, 73, 65, 84, 69, 95, 85, 78, 73, 88, 95, 70, 68>>
    \o CRLF
BEGIN == <<66, 69, 71, 73, 78>> \o CRLF

\* write_string: memcpy of str into buf at pos; b is the pair of the buffer
\* and the position.
write_string(b, pos, str) ==
  [buf |-> [i \in 1..(IF Len(b.buf) > pos + Len(str) THEN Len(b.buf)
                      ELSE pos + Len(str)) |->
              IF i > pos /\ i <= pos + Len(str) THEN str[i - pos]
              ELSE b.buf[i]],
   pos |-> pos + Len(str)]

\* snprintf(uidstr, sizeof(uidstr), "%d", uid).
RECURSIVE snprintf_d(_)
snprintf_d(uid) ==
  IF uid < 10 THEN <<48 + uid>>
  ELSE snprintf_d(uid \div 10) \o <<48 + (uid % 10)>>

\* snprintf(tmp, sizeof(tmp), "%.2x", c).
snprintf_02x(c) ==
  LET x(d) == IF d < 10 THEN 48 + d ELSE 87 + d
  IN <<x(c \div 16), x(c % 16)>>

\* The loop of dbus_sendauth over the characters of uidstr, from i on.
RECURSIVE write_uid(_, _, _)
write_uid(b, uidstr, i) ==
  IF i > Len(uidstr) THEN b
  ELSE write_uid(write_string(b, b.pos, snprintf_02x(uidstr[i])), uidstr,
                 i + 1)

\* The check of the result wr of write(fd, buf, pos) that accepts a short
\* write.
write_check_partial(wr, pos) ==
  IF wr < 0 THEN "ErrorWithErrno" ELSE ""
\* The check of the result wr of write(fd, buf, pos): the error thrown, or
\* "" when there is none.
write_check(wr, pos) ==
  IF wr < 0 THEN "ErrorWithErrno"
  ELSE IF wr # pos THEN "Error"
  ELSE ""

\* The uids of the callers.
Uids == {0, 7, 1000, 65534}

AuthCalls == {[f |-> "dbus_sendauth", uid |-> uid] : uid \in Uids}

\* The results of write(fd, buf, pos): failure, nothing or a part written,
\* all written.
WriteResults(pos) == {-1, 0, pos - 1, pos}

\* The results of read(fd, buf, bufsize): failure, end of file, "OK\r\n"
\* and "REJECTED EXTERNAL ANONYMOUS\r\n".
Replies ==
  {[n |-> -1, bytes |-> << >>],
   [n |-> 0, bytes |-> << >>],
   [n |-> 4, bytes |-> <<79, 75>> \o CRLF],
   [n |-> 29, bytes |-> <<82, 69, 74, 69, 67, 84, 69, 68, 32, 69, 88, 84, 69,
                          82, 78, 65, 76, 32, 65, 78, 79, 78, 89, 77, 79, 85,
                          83>> \o CRLF]}

AuthInit ==
  /\ job = [kind |-> "none"]
  /\ phase = "auth"
  /\ h = NewParse("LE")
  /\ p = NewParse("LE")
  /\ chunk = [from |-> 0, n |-> 0, short |-> FALSE]
  /\ out = [set |-> FALSE]
  /\ call \in AuthCalls
  /\ ret = NoReturn

\* dbus_sendauth up to its first call of sendbuf: the NUL byte and the
\* AUTH EXTERNAL line are in the buffer.
Call_dbus_sendauth ==
  /\ call.f = "dbus_sendauth"
  /\ ~ret.set
  /\ ~ret.run
  /\ LET b0 == write_string([buf |-> << >>, pos |-> 0], 0, <<0>>)
         b1 == write_string(b0, b0.pos, AUTH_EXTERNAL)
         b2 == write_uid(b1, snprintf_d(call.uid), 1)
         b3 == write_string(b2, b2.pos, CRLF)
     IN ret' = [set |-> FALSE, run |-> TRUE, ok |-> FALSE, why |-> "",
                pc |-> "AUTH", io |-> "write", buf |-> b3.buf,
                pos |-> b3.pos, trace |-> << >>]
  /\ UNCHANGED <<job, phase, h, p, chunk, out, call>>

\* The state after write(fd, buf, pos) has returned wr; whenDone is the
\* state when the result passes the check.
AfterWrite(wr, whenDone) ==
  LET why == write_check(wr, ret.pos)
      trace == Append(ret.trace,
                      [op |-> "write", data |-> SubSeq(ret.buf, 1, ret.pos),
                       wr |-> wr])
  IN IF why # ""
     THEN [ret EXCEPT !.set = TRUE, !.run = FALSE, !.why = why,
                      !.trace = trace]
     ELSE [whenDone EXCEPT !.trace = trace]

\* sendbuf up to its read: the write and its check.
sendbuf_write ==
  /\ call.f = "dbus_sendauth"
  /\ ret.run
  /\ ret.pc \in {"AUTH", "NEGOTIATE"}
  /\ ret.io = "write"
  /\ \E wr \in WriteResults(ret.pos) :
       ret' = AfterWrite(wr, [ret EXCEPT !.io = "read"])
  /\ UNCHANGED <<job, phase, h, p, chunk, out, call>>

\* The read of sendbuf, whose result dbus_sendauth ignores, and the next
\* line written into the buffer.
sendbuf_read ==
  /\ call.f = "dbus_sendauth"
  /\ ret.run
  /\ ret.io = "read"
  /\ \E reply \in Replies :
       LET b == write_string([buf |-> ret.buf, pos |-> ret.pos], 0,
                             reply.bytes)
           line == IF ret.pc = "AUTH" THEN NEGOTIATE_UNIX_FD ELSE BEGIN
           next == write_string(b, 0, line)
       IN ret' = [ret EXCEPT !.pc = IF ret.pc = "AUTH" THEN "NEGOTIATE"
                                    ELSE "BEGIN",
                             !.io = "write", !.buf = next.buf,
                             !.pos = next.pos,
                             !.trace = Append(ret.trace,
                                              [op |-> "read",
                                               n |-> reply.n])]
  /\ UNCHANGED <<job, phase, h, p, chunk, out, call>>

\* The write of the BEGIN line and the return of dbus_sendauth.
write_BEGIN ==
  /\ call.f = "dbus_sendauth"
  /\ ret.run
  /\ ret.pc = "BEGIN"
  /\ ret.io = "write"
  /\ \E wr \in WriteResults(ret.pos) :
       ret' = AfterWrite(wr, [ret EXCEPT !.set = TRUE, !.run = FALSE,
                                         !.ok = TRUE])
  /\ UNCHANGED <<job, phase, h, p, chunk, out, call>>

AuthNext ==
  \/ Call_dbus_sendauth
  \/ sendbuf_write
  \/ sendbuf_read
  \/ write_BEGIN

AuthSpec == AuthInit /\ [][AuthNext]_vars

(***************************************************************************)
(* Properties.                                                             *)
(***************************************************************************)
\* The parser has completed and has delivered a value.
Accepted(m) == Stopped(m) /\ m.res.set

\* C1: an object that is serialized, parsed back in the same byte order and
\* serialized again gives a buffer of the same size and content, and the
\* parser (fed by the library's loop or in any chunks) never fails on it and
\* reports completion exactly when it has consumed all the serialized bytes.
C1_RoundTrip ==
  (job.kind = "obj" /\ job.mut = 0) =>
    /\ h.st = "wait"
    /\ p.st = "wait"
    /\ phase = "feed" => Accepted(h) /\ h.pos = Len(job.input)
    /\ Stopped(p) <=> p.pos = Len(job.input)
    /\ Stopped(p) => p.res.set
    /\ out.set => out.buf = job.input

C1_Witness ==
  /\ job.kind = "obj"
  /\ job.mut = 0
  /\ job.E = "BE"
  /\ job.t = TArray(TStruct(<<TChar, TUint64>>))
  /\ Len(job.v.es) >= 2
  /\ Accepted(h)
  /\ chunk.short
  /\ out.set
  /\ out.buf = job.input

\* C2: no call of Parse::parse makes more than ChainFuel continuation
\* invocations, whatever the input.
C2_BoundedChain == h.st # "deep" /\ p.st # "deep"

\* C3: however the input is split into calls of Parse::parse, the outcome
\* is that of the library's loop, which feeds maxRequiredBytes() at a time:
\* a value is delivered only if the loop delivers the same value after the
\* same number of bytes, and when the loop delivers a value the chunked
\* parser does not fail and can always be fed on until it delivers.
C3_ChunkingIndependent ==
  phase = "feed" =>
    /\ Accepted(p) => Accepted(h) /\ h.res = p.res /\ h.pos = p.pos
    /\ Accepted(h) =>
         /\ p.st = "wait"
         /\ Stopped(p) => p.res.set
         /\ ~Stopped(p) =>
              /\ p.pos < h.pos
              /\ minRequiredBytes(Head(p.stk)) <= Len(job.input) - p.pos

C3_Witness ==
  /\ phase = "feed"
  /\ job.kind = "obj"
  /\ job.t = TDictEntry(TChar, TString)
  /\ Len(job.v.val.s) = 2
  /\ chunk.short
  /\ Accepted(p)
  /\ h.res = p.res
  /\ h.pos = p.pos

\* C4: the value the object parser delivers serializes, in the same byte
\* order, to exactly the bytes the parser consumed.
C4_ParseThenSerialize ==
  (job.kind = "obj" /\ out.set) => out.buf = SubSeq(job.input, 1, p.pos)

C4_Witness ==
  /\ job.kind = "obj"
  /\ job.mut # 0
  /\ job.t = TVariant
  /\ out.set
  /\ p.res.obj # job.v
  /\ out.buf = SubSeq(job.input, 1, p.pos)

\* C5: parsing the serialization of a value delivers a value structurally
\* equal to it.
C5_Bijection ==
  (job.kind = "obj" /\ job.mut = 0 /\ Accepted(p)) => p.res.obj = job.v

\* The offset at which the body of a message with this header starts.
BodyStart(header) ==
  alignup(serialize(SerializerDryRun, header).pos, alignment(TUint64))

\* C6: a message is accepted only if its body took as many bytes as the
\* body_length field of its header says.
C6_BodyLength ==
  (job.kind = "msg" /\ Accepted(p)) =>
    p.pos - BodyStart(p.res.header) = getHeader_bodySize(p.res.header)

\* The continuations that take over after alignment padding.
PaddingConts == {"PaddingCont", "Array_PaddingCont", "Message_PaddingCont"}

\* The parser is reading, or has failed in, alignment padding.
InPadding(m) ==
  /\ Len(m.stk) >= 2
  /\ m.stk[1].f = "ParseZeros"
  /\ m.stk[2].f \in PaddingConts

\* The alignment the padding in progress leads to.
PaddingAlignment(m) ==
  IF m.stk[2].f = "Message_PaddingCont" THEN alignment(TUint64)
  ELSE alignment(m.stk[2].t)

\* C7: alignment padding (before a value, behind an array length, between
\* header and body) runs from pos to the next multiple of the alignment, and
\* an input whose padding holds a non-zero byte is never accepted: the parser
\* raises ParseError once it has been fed that byte, an object parser
\* delivers nothing, and the only thing a message parser has stored is a
\* header that ends before that byte.
C7_Padding ==
  /\ \A m \in {h, p} :
       (m.st = "wait" /\ InPadding(m)) =>
         /\ (m.pos + m.stk[1].n) % PaddingAlignment(m) = 0
         /\ m.stk[1].n < PaddingAlignment(m)
  /\ (job.mut # 0 /\ job.input[job.mut] # 0 /\ job.mut - 1 \in job.pads) =>
       \A m \in {h, p} :
         /\ ~Stopped(m)
         /\ job.kind = "obj" => ~m.res.set
         /\ (job.kind = "msg" /\ m.res.set) =>
              /\ m.res.body = << >>
              /\ serialize(SerializerDryRun, m.res.header).pos < job.mut
         /\ m.pos >= job.mut =>
              /\ m.st = "err"
              /\ m.err.type = "ParseError"
              /\ InPadding(m)

C7_Witness ==
  /\ job.kind = "msg"
  /\ job.mut # 0
  /\ job.input[job.mut] # 0
  /\ job.mut - 1 \in job.pads
  /\ p.st = "err"
  /\ p.err.type = "ParseError"
  /\ p.stk[2].f = "Message_PaddingCont"
  /\ chunk.n = 1

\* C8: the ParseError for a non-zero padding byte carries the offset of
\* that byte in the input.
C8_ErrorOffset ==
  (p.st = "err" /\ InPadding(p)) =>
    p.err.pos = chunk.from + FirstNonZero(
                  SubSeq(job.input, chunk.from + 1, chunk.from + chunk.n), 0)

\* The declared end of the payload of a top-level array.
ArrayEnd(j) ==
  alignup(4, alignment(j.t.bt))
    + FromDigits(WireToHost(j.E, SubSeq(j.input, 1, 4)))

\* C9: an array is delivered only when the parser stands exactly at the
\* declared end of its payload; once the position is behind the declared end
\* the parser is inside an element, or has failed with ParseError.
C9_ArrayLength ==
  (job.kind = "obj" /\ job.t.k = "a") =>
    \A m \in {h, p} :
      /\ m.res.set => m.pos = ArrayEnd(job)
      /\ m.pos > ArrayEnd(job) =>
           \/ m.st = "err" /\ m.err.type = "ParseError"
           \/ /\ m.st = "wait"
              /\ \E i \in 1..Len(m.stk) : m.stk[i].f = "parseArray_Cont"

C9_Witness ==
  /\ job.kind = "obj"
  /\ job.t = TArray(TUint16)
  /\ job.mut # 0
  /\ p.st = "err"
  /\ p.err.msg = "Incorrect array length."
  /\ p.pos > ArrayEnd(job)
  /\ ~p.res.set

\* C10: in the bytes of the emit pass every array length field holds the
\* number of bytes from the end of the padding behind the field to the end
\* of the last element.
C10_LengthField ==
  out.set =>
    \A i \in 1..Len(out.spans) :
      LET sp == out.spans[i]
      IN FromDigits(WireToHost(job.E, SubSeq(out.buf, sp.at + 1, sp.at + 4)))
           = sp.to - alignup(sp.at + 4, sp.a)

C10_Witness ==
  /\ out.set
  /\ job.t = TArray(TArray(TUint64))
  /\ Len(out.spans) >= 3
  /\ \E i \in 1..Len(out.spans) :
       /\ out.spans[i].at % 8 = 0
       /\ out.spans[i].to > out.spans[i].at + 8

\* The payload length of the array body that starts at offset at, taken
\* from the array bodies the emit pass ran.
PayloadAt(spans, at) ==
  LET j == CHOOSE j \in 1..Len(spans) : spans[j].at = at
  IN spans[j].to - alignup(at + 4, spans[j].a)

\* C11: the emit pass calls recordArraySize for the same array nodes, in
\* the same order, as the size pass; entry i of the array sizes is the
\* payload length of the array of call i; and the emit pass reads every
\* entry and none behind the last.
C11_SameOrder ==
  LET t == job.ser
  IN /\ t.ok
     /\ t.emitted = t.sized
     /\ t.cnt = Len(t.sizes)
     /\ Len(t.sized) = Len(t.sizes)
     /\ \A i \in 1..Len(t.sizes) :
          t.sizes[i] = PayloadAt(t.spans, t.emitted[i].at)

C11_Witness ==
  /\ job.t = TArray(TArray(TUint64))
  /\ Len(job.ser.sizes) = 3
  /\ job.ser.sizes[1] > job.ser.sizes[2]
  /\ job.ser.sizes[2] > job.ser.sizes[3]
  /\ job.ser.cnt = 3
  /\ job.mut = 0
  /\ Accepted(p)

\* Every value of the pass starts at a multiple of its type's alignment.
StartsAligned(starts) ==
  \A i \in 1..Len(starts) : starts[i].at % alignment([k |-> starts[i].k]) = 0

\* C12: in every buffer the emit pass produced, each value, at any depth,
\* starts at a multiple of the alignment of its type, and every byte that
\* insertPadding wrote is zero.
C12_Aligned ==
  /\ StartsAligned(job.ser.starts)
  /\ job.mut = 0 => \A i \in job.pads : job.input[i + 1] = 0
  /\ out.set =>
       /\ StartsAligned(out.starts)
       /\ \A i \in out.pads : out.buf[i + 1] = 0

C12_Witness ==
  /\ job.t = TStruct(<<TChar, TStruct(<<TBoolean, TArray(TUint64)>>)>>)
  /\ job.E = "BE"
  /\ out.set
  /\ \E i \in 1..Len(out.starts) :
       out.starts[i].k = "t" /\ out.starts[i].at = 16
  /\ \E i \in 1..Len(out.starts) :
       out.starts[i].k = "a" /\ out.starts[i].at = 12
  /\ out.pads = 1..7

\* C13: alignment() of the type of every serialized value is the alignment
\* of the D-Bus table: 1 for Char, Signature and Variant; 2 for Uint16 and
\* Int16; 4 for Boolean, Uint32, Int32, UnixFd, String, Path and Array; 8
\* for Uint64, Int64, Double, Struct and DictEntry.
C13_AlignmentTable ==
  \A i \in 1..Len(job.ser.starts) :
    LET k == job.ser.starts[i].k
    IN alignment([k |-> k]) =
         CASE k \in {"y", "g", "v"} -> 1
           [] k \in {"q", "n"} -> 2
           [] k \in {"b", "u", "i", "h", "s", "o", "a"} -> 4
           [] k \in {"t", "x", "d", "(", "{"} -> 8

\* C14: when the object parser for a type has succeeded, its completion
\* continuation was invoked once, with a value whose type spells the same
\* signature as the type the parser was made for; so does the header the
\* message parser's object parser hands over.
C14_ResultType ==
  \A m \in {h, p} :
    /\ (job.kind = "obj" /\ m.res.set) => m.res.calls = 1
    /\ (job.kind = "obj" /\ Accepted(m)) =>
         TypeToString(getType(m.res.obj)) = TypeToString(job.t)
    /\ (job.kind = "msg" /\ m.res.set) =>
         TypeToString(getType(m.res.header)) = TypeToString(headerType)

C14_Witness ==
  /\ job.kind = "obj"
  /\ job.t = TArray(TArray(TUint64))
  /\ Accepted(p)
  /\ p.res.calls = 1
  /\ Len(p.res.obj.es) = 2
  /\ Len(p.res.obj.es[1].es) = 0
  /\ Len(p.res.obj.es[2].es) = 1
  /\ TypeToString(getType(p.res.obj)) = <<97, 97, 116>>

\* The value of the variant of the first Signature field of a header.
SignatureOf(header) ==
  header.es[7].es[getHeader_lookupField(header, MSGHDR_SIGNATURE)].es[2].c

\* C15: the header decides the shape of the body.  With body_length > 0 an
\* accepted message has a Signature field holding a signature, and the
\* types of its body elements, in order, spell exactly that signature.
\* With body_length = 0 the body of an accepted message is empty and the
\* Signature field plays no part: no error comes from looking it up.
C15_BodyShape ==
  job.kind = "msg" =>
    \A m \in {h, p} :
      m.res.set =>
        LET header == m.res.header
        IN IF getHeader_bodySize(header) > 0
           THEN Accepted(m) =>
                  /\ getHeader_lookupField(header, MSGHDR_SIGNATURE) # 0
                  /\ SignatureOf(header).k = "g"
                  /\ SignatureOf(header).s =
                       DBusMessageBody_signature(m.res.body)
           ELSE /\ m.res.body = << >>
                /\ m.st = "err" => m.err.type = "ParseError"

C15_Witness ==
  /\ job.kind = "msg"
  /\ Accepted(p)
  /\ getHeader_bodySize(p.res.header) = 16
  /\ SignatureOf(p.res.header).s = <<121, 116>>
  /\ Len(p.res.body) = 2
  /\ p.res.body[1].k = "y"
  /\ p.res.body[2].k = "t"

\* C16: whatever the input bytes, the only exception that leaves the
\* message parser is a ParseError.
C16_OnlyParseError ==
  job.kind = "msg" =>
    \A m \in {h, p} : m.st = "err" => m.err.type = "ParseError"

\* C17: the result slot of the message parser is set only when the parser
\* has completed: not while it waits for more bytes, and not after an error.
C17_ResultUnset ==
  job.kind = "msg" => \A m \in {h, p} : m.res.set => Stopped(m)

\* C18: a message that receive_dbus_message accepts starts with 'l' or 'B',
\* and its integers were decoded in the byte order that byte indicates:
\* serialized in that byte order, the accepted message gives back the bytes
\* that were read.
C18_Endianness ==
  (job.kind = "msg" /\ Accepted(h)) =>
    /\ job.input[1] \in {108, 66}
    /\ dbus_message_to_buffer(
         IF job.input[1] = 108 THEN "LE" ELSE "BE",
         [header |-> h.res.header, body |-> h.res.body]).buf
         = SubSeq(job.input, 1, h.pos)

\* C19: a Variant is delivered only if its length byte is the length of the
\* one type its signature spells and a zero byte follows; and for a
\* serialized Variant whose length byte was replaced (now too short, zero or
\* too long), whose array signature "a.." got the complete type 'y' as first
\* byte (two types), or whose terminator was replaced, the parser has failed
\* with ParseError as soon as it has read the one type, respectively the
\* terminator.  No other error leaves the parser.
C19_VariantSignature ==
  (job.kind = "obj" /\ job.t = TVariant) =>
    \A m \in {h, p} :
      LET L == Len(job.v.sig)
      IN /\ m.st = "err" => m.err.type = "ParseError"
         /\ m.res.set =>
              LET sig == TypeToString(getType(m.res.obj.c))
              IN /\ job.input[1] = Len(sig)
                 /\ SubSeq(job.input, 2, 1 + Len(sig)) = sig
                 /\ job.input[2 + Len(sig)] = 0
         /\ (job.mut = 1 /\ m.pos >= 1 + L) =>
              /\ m.st = "err"
              /\ m.err.msg = "Incorrect variant signature length."
         /\ (job.mut = 2 /\ job.input[2] = 121 /\ L > 1 /\ m.pos >= 2) =>
              /\ m.st = "err"
              /\ m.err.msg = "Incorrect variant signature length."
         /\ (job.mut = L + 2 /\ m.pos >= L + 2) =>
              /\ m.st = "err"
              /\ m.err.msg = "Unexpected non-zero byte."

\* The length byte of the variant (u) was replaced by 2.
C19_Witness ==
  /\ job.kind = "obj"
  /\ job.t = TVariant
  /\ job.v.sig = <<117>>
  /\ job.mut = 1
  /\ job.input[1] = 2
  /\ p.st = "err"
  /\ p.err.type = "ParseError"
  /\ p.err.msg = "Incorrect variant signature length."
  /\ p.pos = 2

\* C20: the Boolean parser reads four bytes as a 32-bit unsigned integer in
\* the byte order of the parser; for 0 and 1 it delivers that Boolean, and
\* for every other value it has failed with ParseError and delivers nothing.
C20_Boolean ==
  (job.kind = "obj" /\ job.t = TBoolean) =>
    LET b == job.input
        w == IF job.E = "LE"
             THEN b[1] + 256 * (b[2] + 256 * (b[3] + 256 * b[4]))
             ELSE b[4] + 256 * (b[3] + 256 * (b[2] + 256 * b[1]))
    IN \A m \in {h, p} :
         /\ m.res.set => w \in {0, 1} /\ m.res.obj = ObjBoolean(w)
         /\ m.pos < 4 => m.st = "wait" /\ ~m.res.set
         /\ (m.pos >= 4 /\ w <= 1) => Accepted(m)
         /\ (m.pos >= 4 /\ w > 1) =>
              /\ m.st = "err"
              /\ m.err.type = "ParseError"
              /\ ~m.res.set

\* The wire value 2 in big endian.
C20_Witness ==
  /\ job.kind = "obj"
  /\ job.t = TBoolean
  /\ job.E = "BE"
  /\ job.input = <<0, 0, 0, 2>>
  /\ p.pos = 4
  /\ p.st = "err"
  /\ p.err.msg = "Boolean value that is not 0 or 1."
  /\ ~p.res.set

\* C21: parsing the signature string of one type, or of several types
\* written one after the other, with toTypes returns exactly those types
\* in order; printed again they give the string that was parsed.
C21_SignatureRoundTrip ==
  (call.f = "toTypes" /\ call.types # << >>) =>
    /\ ret.run => /\ ret.p.st = "wait"
                  /\ ret.p.pos <= Len(call.str)
                  /\ ret.p.ts = SubSeq(call.types, 1, Len(ret.p.ts))
    /\ ret.set => /\ Stopped(ret.p)
                  /\ ret.p.ts = call.types
                  /\ TypesToString(ret.p.ts) = call.str
                  /\ ret.p.pos = Len(call.str)
                  /\ Len(call.str) <= 64 => toTypes(call.str) = ret.p

\* Two types, the second a struct with nested containers.
C21_Witness ==
  /\ call.f = "toTypes"
  /\ call.types = <<TArray(TDictEntry(TUint32, TString)),
                    TStruct(<<TChar, TStruct(<<TBoolean, TArray(TUint64)>>)>>)>>
  /\ ret.set
  /\ Stopped(ret.p)
  /\ Len(ret.p.ts) = 2
  /\ ret.p.ts[2].fts[2].fts[2] = TArray(TUint64)

\* The number of occurrences of the character c among the first n of str.
CountChar(str, c, n) == Cardinality({i \in 1..n : str[i] = c})

\* The malformed signatures that can be told from the characters alone: a
\* character that is no type letter and no bracket, a ')' with no '(' open,
\* an 'a' with no type behind it, a '(' or '{' open at the end.
Malformed(str) ==
  \/ \E i \in 1..Len(str) :
       str[i] \notin {LetterCode(k) :
                        k \in {"y", "b", "q", "n", "u", "i", "t", "x", "d",
                               "h", "s", "o", "g", "v", "a", "(", ")", "{",
                               "}"}}
  \/ \E i \in 1..Len(str) :
       /\ str[i] = LetterCode(")")
       /\ CountChar(str, LetterCode("("), i - 1)
            <= CountChar(str, LetterCode(")"), i - 1)
  \/ \E i \in 1..Len(str) :
       /\ str[i] = LetterCode("a")
       /\ \/ i = Len(str)
          \/ str[i + 1] \in {LetterCode(")"), LetterCode("}")}
  \/ CountChar(str, LetterCode("("), Len(str))
       > CountChar(str, LetterCode(")"), Len(str))
  \/ CountChar(str, LetterCode("{"), Len(str))
       > CountChar(str, LetterCode("}"), Len(str))

\* C22: toTypes returns types only for a string that is the signature of
\* the types it returns, so no malformed string yields a type; every other
\* outcome is a ParseError, and that is the outcome for an invalid
\* character, a ')' with no open '(', an 'a' with no type behind it and a
\* '(' or '{' left open.
C22_MalformedRejected ==
  (call.f = "toTypes" /\ ret.set) =>
    /\ Stopped(ret.p) => /\ ret.p.ts # << >>
                         /\ TypesToString(ret.p.ts) = call.str
    /\ ~Stopped(ret.p) => /\ ret.p.st = "err"
                          /\ ret.p.err.type = "ParseError"
    /\ Malformed(call.str) => ~Stopped(ret.p)

\* The string a{y) : a close paren where the value type of a dict entry
\* is expected, inside an array.
C22_Witness ==
  /\ call.f = "toTypes"
  /\ call.str = <<97, 123, 121, 41>>
  /\ Malformed(call.str)
  /\ ret.set
  /\ ret.p.st = "err"
  /\ ret.p.err.type = "ParseError"
  /\ ret.p.err.msg = "Unexpected close paren while parsing dict entry type."

\* Every dict entry type inside t has a primitive key.
RECURSIVE PrimitiveKeys(_)
PrimitiveKeys(t) ==
  CASE t.k = "a" -> PrimitiveKeys(t.bt)
    [] t.k = "(" -> \A i \in 1..Len(t.fts) : PrimitiveKeys(t.fts[i])
    [] t.k = "{" -> /\ t.kt \in PrimitiveTypes
                    /\ PrimitiveKeys(t.vt)
    [] OTHER -> TRUE

\* C23: every dict entry type in the types toTypes returns has a key that
\* is a primitive type.
C23_DictKeyPrimitive ==
  (call.f = "toTypes" /\ ret.set /\ Stopped(ret.p)) =>
    \A i \in 1..Len(ret.p.ts) : PrimitiveKeys(ret.p.ts[i])

\* C24: in every Array value that mk, mk1 or the constructor returns, all
\* children have the same type, and it is the element type of the array.
C24_ArrayHomogeneous ==
  (call.f \in {"Array_mk1", "Array_mk", "Array_ctor"} /\ ret.set /\ ret.ok) =>
    \A i \in 1..Len(ret.obj.es) : getType(ret.obj.es[i]) = ret.obj.bt

\* C26: a Signature value, and the signature inside a Variant value, that
\* a constructor returns has at most SignatureMax bytes, and the length
\* byte written for it is the length of its payload.
C26_SignatureLength ==
  (call.f \in {"Signature_mk", "Variant_mk"} /\ ret.set /\ ret.ok) =>
    LET payload == IF call.f = "Signature_mk" THEN ret.obj.s
                   ELSE ret.obj.sig
    IN /\ Len(payload) <= SignatureMax
       /\ ret.wire[1] = Len(payload)

\* No String or Path inside the value v has a zero byte in its payload.
RECURSIVE NoNul(_)
NoNul(v) ==
  CASE v.k \in {"s", "o"} -> \A i \in 1..Len(v.s) : v.s[i] # 0
    [] v.k = "v" -> NoNul(v.c)
    [] v.k = "{" -> NoNul(v.key) /\ NoNul(v.val)
    [] v.k \in {"a", "("} -> \A i \in 1..Len(v.es) : NoNul(v.es[i])
    [] OTHER -> TRUE

\* C25: no String or Path in a value delivered by the parser has a zero
\* byte in its payload.
C25_NoNulPayload ==
  \A m \in {h, p} :
    Accepted(m) =>
      IF job.kind = "obj" THEN NoNul(m.res.obj)
      ELSE /\ NoNul(m.res.header)
           /\ \A i \in 1..Len(m.res.body) : NoNul(m.res.body[i])

\* The array, struct and dict entry types reachable from the type t.
RECURSIVE ContainerTypes(_)
ContainerTypes(t) ==
  CASE t.k = "a" -> {t} \cup ContainerTypes(t.bt)
    [] t.k = "(" -> {t} \cup UNION {ContainerTypes(t.fts[i]) :
                                      i \in 1..Len(t.fts)}
    [] t.k = "{" -> {t} \cup ContainerTypes(t.kt) \cup ContainerTypes(t.vt)
    [] OTHER -> {}

\* Every type the value v refers to is a primitive instance or is owned
\* by v: the type of a struct, dict entry or array is a member of its
\* node, built from the types of the children; the element type of an
\* array with elements is the type of element 0; the element type of an
\* array without elements lies in the storage of that array.
RECURSIVE OwnsTypes(_)
OwnsTypes(v) ==
  CASE v.k = "a" ->
         IF Len(v.es) = 0 THEN ContainerTypes(v.bt) \subseteq v.storage
         ELSE /\ v.bt = getType(v.es[1])
              /\ v.storage = {}
              /\ \A i \in 1..Len(v.es) : OwnsTypes(v.es[i])
    [] v.k = "(" -> \A i \in 1..Len(v.es) : OwnsTypes(v.es[i])
    [] v.k = "{" -> OwnsTypes(v.key) /\ OwnsTypes(v.val)
    [] v.k = "v" -> OwnsTypes(v.c)
    [] OTHER -> TRUE

RECURSIVE TypedAs(_, _)
TypedAs(v, t) ==
  CASE t.k = "a" -> /\ v.k = "a"
                    /\ v.bt = t.bt
                    /\ \A i \in 1..Len(v.es) : TypedAs(v.es[i], t.bt)
    [] t.k = "(" -> /\ v.k = "("
                    /\ Len(v.es) = Len(t.fts)
                    /\ \A i \in 1..Len(v.es) : TypedAs(v.es[i], t.fts[i])
    [] t.k = "{" -> /\ v.k = "{"
                    /\ TypedAs(v.key, t.kt)
                    /\ TypedAs(v.val, t.vt)
    [] OTHER -> v.k = t.k

\* The value v holds an array without elements.
RECURSIVE HasEmptyArray(_)
HasEmptyArray(v) ==
  CASE v.k = "a" -> \/ Len(v.es) = 0
                    \/ \E i \in 1..Len(v.es) : HasEmptyArray(v.es[i])
    [] v.k = "(" -> \E i \in 1..Len(v.es) : HasEmptyArray(v.es[i])
    [] v.k = "{" -> HasEmptyArray(v.key) \/ HasEmptyArray(v.val)
    [] v.k = "v" -> HasEmptyArray(v.c)
    [] OTHER -> FALSE

\* The input of an array job starts with the length 0 and the padding up
\* to the alignment of the element type.
ZeroLengthArrayInput ==
  /\ job.kind = "obj"
  /\ job.t.k = "a"
  /\ LET n == alignup(4, alignment(job.t.bt))
     IN /\ Len(job.input) >= n
        /\ \A i \in 1..n : job.input[i] = 0

\* C28: an array whose length prefix is 0 is delivered as an array with no
\* elements whose element type equals the requested element type, nested
\* container types included; every array of a delivered value has the
\* element type the requested type gives it; and serializing a delivered
\* value that holds an empty array gives back the bytes that were parsed.
C28_EmptyArrayRoundTrip ==
  /\ (phase = "feed" /\ ZeroLengthArrayInput) =>
        /\ Accepted(h)
        /\ h.pos = alignup(4, alignment(job.t.bt))
        /\ h.res.obj.es = << >>
        /\ h.res.obj.bt = job.t.bt
  /\ \A m \in {h, p} :
       (job.kind = "obj" /\ Accepted(m)) => TypedAs(m.res.obj, job.t)
  /\ (job.kind = "obj" /\ Accepted(p) /\ HasEmptyArray(p.res.obj)
        /\ out.set) =>
        out.buf = SubSeq(job.input, 1, p.pos)

\* An empty array of arrays, and an empty array inside an array, parsed
\* and serialized again.
C28_Witness ==
  /\ job.kind = "obj"
  /\ Accepted(p)
  /\ out.set
  /\ out.buf = job.input
  /\ \/ /\ ZeroLengthArrayInput
        /\ job.t = TArray(TArray(TUint64))
        /\ p.res.obj.es = << >>
        /\ p.res.obj.bt = TArray(TUint64)
     \/ /\ job.t = TArray(TArray(TUint64))
        /\ Len(p.res.obj.es) = 1
        /\ p.res.obj.es[1].es = << >>
        /\ p.res.obj.es[1].bt = TUint64
        /\ Len(job.input) = 8

\* The offset where the header of msg ends in the emitted bytes.
HeaderEnd(msg) == Len(dbus_object_to_buffer("LE", msg.header).buf)

\* The body-length field of the emitted bytes: the little endian 32-bit
\* number at offset 4.
BodyLengthField(wire) == FromDigits(WireToHost("LE", SubSeq(wire, 5, 8)))

MessageBuilders ==
  {"dbus_method_call", "dbus_method_call_with_fds", "dbus_method_reply"}

\* C29: in the bytes of a message built by dbus_method_call,
\* dbus_method_call_with_fds or dbus_method_reply, the body-length field
\* is the number of bytes that follow the end of the header rounded up to
\* a multiple of 8, and those bytes are the body serialized from offset 0.
C29_BodyLength ==
  (call.f \in MessageBuilders /\ ret.set) =>
    LET start == alignup(HeaderEnd(ret.msg), 8)
    IN /\ ret.ok
       /\ Len(ret.wire) >= start
       /\ BodyLengthField(ret.wire) = Len(ret.wire) - start
       /\ FromDigits(ret.msg.header.es[5].x) = Len(ret.wire) - start

\* A body with padding inside it sent by dbus_method_call behind a header
\* whose end is not a multiple of 8.
C29_Witness ==
  /\ call.f = "dbus_method_call"
  /\ ret.set
  /\ call.body = <<ObjChar(7), ObjScalar("q", <<1, 2>>),
                    ObjString("s", <<97>>)>>
  /\ HeaderEnd(ret.msg) % 8 # 0
  /\ BodyLengthField(ret.wire) = 10

\* The size of the stationary buffer of a driver.
DriverBufSize == 255

\* C30: in every state of a parser minRequiredBytes() is at most 255, and
\* while the parser has not stopped minRequiredBytes() is at most
\* maxRequiredBytes(), maxRequiredBytes() is at least 1, and some chunk
\* size from 1 to 255 lies between the two.
C30_RequiredBytes ==
  \A m \in {h, p} :
    m.st = "wait" =>
      LET c == Head(m.stk)
      IN /\ minRequiredBytes(c) <= DriverBufSize
         /\ c.f # "ParseStop" =>
              /\ minRequiredBytes(c) <= maxRequiredBytes(c)
              /\ maxRequiredBytes(c) >= 1
              /\ \E n \in 1..DriverBufSize :
                   minRequiredBytes(c) <= n /\ n <= maxRequiredBytes(c)

\* A parser in the middle of a run of padding bytes, and one in the middle
\* of the bytes of a string, after a short chunk.
C30_Witness ==
  /\ p.st = "wait"
  /\ chunk.short
  /\ chunk.n >= 1
  /\ Head(p.stk).f \in {"ParseZeros", "ParseNChars"}
  /\ Head(p.stk).n >= 1
  /\ Head(p.stk).n < 7

\* The number a digit string stands for is below that of another one of
\* the same length.
RECURSIVE DigitsLess(_, _)
DigitsLess(a, b) ==
  /\ Len(a) > 0
  /\ \/ Head(a) < Head(b)
     \/ Head(a) = Head(b) /\ DigitsLess(Tail(a), Tail(b))

\* C31: when the position plus the 32-bit payload length of an array, or
\* plus the 8-bit length of the signature of a variant, does not fit in a
\* size_t (the sum wraps to a number below the position), the parser
\* throws a ParseError; when it fits, the parser goes on with the sum as
\* the end position.
C31_LengthOverflow ==
  (call.f \in {"Array_PaddingCont", "Variant_LengthCont"} /\ ret.set) =>
    LET sum == AddCarry(call.pos,
                        Zeros(SizeBytes - Len(call.len)) \o call.len, 0).sum
    IN IF DigitsLess(sum, call.pos)
       THEN ~ret.ok /\ ret.why = "ParseError"
       ELSE ret.ok /\ ret.endpos = sum

\* An array length of 4 added at the position 2^64 - 4, and the largest
\* signature length added at the largest position.
C31_Witness ==
  /\ ret.set
  /\ ~ret.ok
  /\ \/ /\ call.f = "Array_PaddingCont"
        /\ call.pos = [i \in 1..SizeBytes |->
                         IF i < SizeBytes THEN 255 ELSE 252]
        /\ call.len = <<0, 0, 0, 4>>
     \/ /\ call.f = "Variant_LengthCont"
        /\ call.pos = [i \in 1..SizeBytes |-> 255]
        /\ call.len = <<255>>

\* The parser of the job j after chunks of the given sizes, fed to it
\* alone.
RECURSIVE Replay(_, _, _)
Replay(m, input, sizes) ==
  IF Len(sizes) = 0 THEN m
  ELSE Replay(Parse_parse(m, SubSeq(input, m.pos + 1, m.pos + Head(sizes))),
              input, Tail(sizes))

C33_EmptyArrayBytes ==
  (call.f = "dbus_object_to_buffer" /\ ret.set) =>
    LET v == call.object
    IN /\ (v.k = "a" /\ Len(v.es) = 0) =>
            /\ ret.wire = Zeros(alignup(4, alignment(v.bt)))
            /\ v.bt = TStruct(<<TUint32, TString>>) =>
                 ret.wire = <<0, 0, 0, 0, 0, 0, 0, 0>>
       /\ (v.k = "(" /\ Len(v.es) = 2 /\ v.es[2].k = "a"
            /\ Len(v.es[2].es) = 0) =>
            ret.wire = <<7>> \o Zeros(alignup(8, alignment(v.es[2].bt)) - 1)

\* The empty array of (us) has been serialized.
C33_Witness ==
  /\ call.f = "dbus_object_to_buffer"
  /\ call.object = ObjArray_mk0(TStruct(<<TUint32, TString>>))
  /\ ret.set
  /\ Len(ret.wire) = 8

\* The bytes of the value c serialized at the offset start, a multiple of
\* its alignment: those it has behind start single bytes in a sequence.
BytesAt(E, start, c) ==
  LET s0 == Seq_serialize(SerializerInitArraySizes,
                          [i \in 1..start |-> ObjChar(0)] \o <<c>>)
      s1 == Seq_serialize(SerializeToBuffer(E, s0.sizes, s0.pos),
                          [i \in 1..start |-> ObjChar(0)] \o <<c>>)
  IN SubSeq(s1.buf, start + 1, Len(s1.buf))

\* C34: a variant serializes to the length byte of its signature, the
\* signature, a zero byte, zero bytes up to the alignment of the child,
\* and the bytes of the child at that offset: the variant of the Uint32
\* 0xDEADBEEF at offset 0, little endian, is 01 75 00 00 EF BE AD DE.
C34_VariantBytes ==
  (call.f = "dbus_object_to_buffer" /\ ret.set /\ call.object.k = "v") =>
    LET v == call.object
        sig == TypeToString(getType(v.c))
        head == <<Len(sig)>> \o sig \o <<0>>
        start == alignup(Len(head), alignment(getType(v.c)))
    IN /\ v.sig = sig
       /\ Len(ret.wire) >= start
       /\ SubSeq(ret.wire, 1, start) = head \o Zeros(start - Len(head))
       /\ SubSeq(ret.wire, start + 1, Len(ret.wire))
            = BytesAt(call.E, start, v.c)
       /\ (v.c = ObjScalar("u", <<222, 173, 190, 239>>) /\ call.E = "LE") =>
            ret.wire = <<1, 117, 0, 0, 239, 190, 173, 222>>

\* The variant of 0xDEADBEEF has been serialized, little endian.
C34_Witness ==
  /\ call.f = "dbus_object_to_buffer"
  /\ call.E = "LE"
  /\ call.object = ObjVariant(ObjScalar("u", <<222, 173, 190, 239>>))
  /\ ret.set
  /\ ret.wire[5] = 239

\* The job parses a String, a Path or a Signature and its input holds the
\* whole length prefix.
StringJob ==
  /\ job.kind = "obj"
  /\ job.t.k \in {"s", "o", "g"}
  /\ Len(job.input) >= (IF job.t.k = "g" THEN 1 ELSE 4)

\* The width of the length prefix of the job and the length it declares.
PrefixWidth == IF job.t.k = "g" THEN 1 ELSE 4

DeclaredLength == FromDigits(WireToHost(job.E, SubSeq(job.input, 1, PrefixWidth)))

\* C35: a String, Path or Signature is parsed as a length prefix (4 bytes
\* in the byte order of the parser, 1 byte for a Signature), that many
\* payload bytes and one terminator byte: a delivered payload is exactly
\* the declared number of bytes behind the prefix and the parser has
\* consumed prefix, payload and terminator; a terminator that is not zero
\* ends the parse with a ParseError once it has been fed.
C35_StringFraming ==
  StringJob =>
    \A m \in {h, p} :
      LET end == PrefixWidth + DeclaredLength + 1
      IN /\ Accepted(m) =>
              /\ m.res.obj.k = job.t.k
              /\ Len(m.res.obj.s) = DeclaredLength
              /\ m.res.obj.s = SubSeq(job.input, PrefixWidth + 1, end - 1)
              /\ m.pos = end
              /\ job.input[end] = 0
         /\ (m.pos >= end /\ job.input[end] # 0) =>
              /\ m.st = "err"
              /\ m.err.type = "ParseError"

\* A string of two bytes delivered after a short chunk, and one whose
\* terminator was replaced by 01 and rejected.
C35_Witness ==
  /\ StringJob
  /\ job.t.k = "s"
  /\ job.E = "BE"
  /\ DeclaredLength = 2
  /\ p.pos = PrefixWidth + 3
  /\ \/ Accepted(p) /\ chunk.short
     \/ p.st = "err" /\ job.input[PrefixWidth + 3] = 1

\* The parser m rests in a continuation that is ParseStop exactly when
\* maxRequiredBytes() is 0, never in a ParseNChars or ParseZeros with no
\* bytes left, and in ParseStop only with the result delivered.
StopIsZero(m) ==
  m.st = "wait" =>
    LET c == Head(m.stk)
    IN /\ maxRequiredBytes(c) = 0 <=> c.f = "ParseStop"
       /\ c.f \in {"ParseNChars", "ParseZeros"} => c.n >= 1
       /\ c.f = "ParseStop" => m.res.set /\ minRequiredBytes(c) = 0

\* C36: maxRequiredBytes() is 0 exactly when the installed continuation is
\* ParseStop; no ParseNChars or ParseZeros with zero bytes left is ever
\* installed; ParseStop is installed only after the completion
\* continuation has stored the result; and a parser that has reached
\* ParseStop is not changed by any later step.
C36_StopPermanent ==
  [][/\ StopIsZero(h) /\ StopIsZero(p)
     /\ StopIsZero(h') /\ StopIsZero(p')
     /\ Stopped(h) => h' = h
     /\ Stopped(p) => p' = p]_vars

\* Both parsers have stopped with the value delivered and a later step,
\* the serialization of the value, has been taken.
C36_Witness ==
  /\ Stopped(h)
  /\ Stopped(p)
  /\ p.res.set
  /\ chunk.short
  /\ out.set

RECURSIVE SumSeq(_)
SumSeq(s) == IF Len(s) = 0 THEN 0 ELSE Head(s) + SumSeq(Tail(s))

\* getPos() of the instance m is the sum of the sizes of the chunks it was
\* handed since its construction or reset; an error thrown by a
\* continuation names an offset at or behind the end of the chunk it was
\* handed and inside a chunk of that size laid behind it; and a parser
\* that has stopped on an input as the serializer wrote it has consumed
\* all of it, so that the padding it skipped was computed from offsets
\* counted from the start of the input.
PosIsFed(m, j, fed) ==
  /\ m.pos = SumSeq(fed)
  /\ (m.st = "err" /\ m.err.type = "ParseError" /\ Len(fed) > 0) =>
       /\ m.err.pos >= m.pos
       /\ m.err.pos < m.pos + fed[Len(fed)]
  /\ (Stopped(m) /\ j.mut = 0) => m.pos = Len(j.input)

\* C37: for each of two parsers fed in any order, getPos() is the sum of
\* the sizes of the chunks passed to parse() since construction or the
\* last reset(), the position a continuation sees is the offset just
\* behind the chunk it was handed, and alignment is computed from that
\* offset.
C37_PositionIsSum ==
  phase = "pair" =>
    /\ PosIsFed(h, job.jobs[1], chunk.fed[1])
    /\ PosIsFed(p, job.jobs[2], chunk.fed[2])

\* The first parser has stopped after several chunks on an input with
\* padding, the second has thrown after more than one chunk.
C37_Witness ==
  /\ phase = "pair"
  /\ Stopped(h)
  /\ job.jobs[1].t = TArray(TUint64)
  /\ Len(chunk.fed[1]) >= 3
  /\ h.pos = 16
  /\ p.st = "err"
  /\ Len(chunk.fed[2]) >= 2

\* C38: for every value and every message, the emit pass run with the
\* array sizes of the size pass ends at the position the size pass ended
\* at, has written no byte at or behind that position, has used each
\* recorded array size once, and has written every byte of the buffer of
\* that size.
C38_ExactFill ==
  (call.f \in MessageBuilders \cup {"dbus_object_to_buffer"} /\ ret.set) =>
    /\ ret.pos = ret.size
    /\ ~ret.over
    /\ Len(ret.wire) = ret.size
    /\ ret.cnt = Len(ret.sizes)
    /\ \A i \in 1..Len(ret.wire) : ret.wire[i] \in 0..255

\* A value with arrays inside an array, with padding behind the lengths,
\* has been written into a buffer of 52 bytes.
C38_Witness ==
  /\ call.f = "dbus_object_to_buffer"
  /\ ret.set
  /\ call.object.k = "a"
  /\ Len(call.object.es) = 3
  /\ Len(ret.sizes) = 4
  /\ ret.size > 40

\* The string of the Signature field of a header, as a sequence of one
\* string, or of none when the header has no such field.
SignatureField(header) ==
  LET i == getHeader_lookupField(header, MSGHDR_SIGNATURE)
  IN IF i = 0 THEN << >> ELSE <<header.es[7].es[i].es[2].c.s>>

\* C39: toTypes returns at least one type whenever it returns, and throws
\* the ParseError "not enough bytes" for the empty signature; a message
\* whose header announces a body and holds the empty signature is
\* rejected with that error.
C39_ToTypesNonEmpty ==
  /\ (call.f = "toTypes" /\ ret.set) =>
       /\ ret.p.st = "wait" => Len(ret.p.ts) >= 1
       /\ call.str = << >> =>
            /\ ret.p.st = "err"
            /\ ret.p.err.type = "ParseError"
            /\ ret.p.err.msg = "DBusType::fromSignature not enough bytes"
  /\ (/\ call.f = "receive_dbus_message"
      /\ ret.set
      /\ getHeader_bodySize(call.msg.header) > 0
      /\ SignatureField(call.msg.header) = << << >> >>) =>
       /\ ret.p.st = "err"
       /\ ret.p.err.type = "ParseError"
       /\ ret.p.err.msg = "DBusType::fromSignature not enough bytes"

\* toTypes has been called on the empty signature, or a message with a
\* body of 4 bytes and the empty signature has been received.
C39_Witness ==
  /\ \/ call.f = "toTypes" /\ call.str = << >>
     \/ /\ call.f = "receive_dbus_message"
        /\ call.msg = EmptySignatureMessage
        /\ getHeader_bodySize(call.msg.header) = 4
  /\ ret.set
  /\ ret.p.st = "err"

\* The lines of the handshake of a caller with the given uid, written out.
HandshakeLines(uid) ==
  <<(<<0>> \o AUTH_EXTERNAL
       \o (CASE uid = 0 -> <<51, 48>>
             [] uid = 7 -> <<51, 55>>
             [] uid = 1000 -> <<51, 49, 51, 48, 51, 48, 51, 48>>
             [] uid = 65534 -> <<51, 54, 51, 53, 51, 53, 51, 51, 51, 52>>)
       \o CRLF),
    NEGOTIATE_UNIX_FD, BEGIN>>

\* C40: the calls dbus_sendauth makes on the socket are, in this order,
\* the write of NUL and the AUTH EXTERNAL line with the uid in hex, a read,
\* the write of NEGOTIATE_UNIX_FD, a read and the write of BEGIN, whatever
\* the reads return; a write that fails or is short is the last call and
\* the function throws; the function returns after the write of BEGIN.
C40_FixedOrder ==
  (call.f = "dbus_sendauth" /\ (ret.run \/ ret.set)) =>
    LET tr == ret.trace
    IN /\ Len(tr) <= 5
       /\ \A i \in 1..Len(tr) :
            IF i % 2 = 1
            THEN /\ tr[i].op = "write"
                 /\ tr[i].data = HandshakeLines(call.uid)[(i + 1) \div 2]
                 /\ tr[i].wr # Len(tr[i].data) =>
                      /\ i = Len(tr)
                      /\ ret.set
                      /\ ~ret.ok
                      /\ ret.why = IF tr[i].wr < 0 THEN "ErrorWithErrno"
                                   ELSE "Error"
            ELSE tr[i].op = "read"
       /\ (ret.set /\ ret.ok) =>
            /\ Len(tr) = 5
            /\ \A i \in {1, 3, 5} : tr[i].wr = Len(tr[i].data)
       /\ (ret.set /\ ~ret.ok) => tr[Len(tr)].wr # Len(tr[Len(tr)].data)

\* The handshake of uid 1000 has been completed although the first read
\* failed and the second reply was a rejection.
C40_Witness ==
  /\ call.f = "dbus_sendauth"
  /\ call.uid = 1000
  /\ ret.set
  /\ ret.ok
  /\ ret.trace[2].n = -1
  /\ ret.trace[4].n = 29

====
